---- MODULE Spec2Model ----
(***************************************************************************)
(* Model of the resumable agent loop plugin, plugins/agentic-loop/run.py.  *)
(*                                                                         *)
(* The plugin is a stateless process: every invocation reads one request   *)
(* (command, config, state snapshot, event) and writes one response        *)
(* (status, events, state_updates, logs).  The host owns the persisted     *)
(* state and merges a response's state_updates into it.  The model has two *)
(* kinds of step: the plugin computes a response from the persisted state  *)
(* (Invoke...), and the host merges that response (HostApply).             *)
(*                                                                         *)
(* Python values are tagged records: PyNone, PyStr, PyInt, PyList, PyDict. *)
(* A Python dict is a TLA+ function from its keys; dict.get is dict_get.   *)
(* now_iso() and uuid4() read the environment: they are inputs.            *)
(***************************************************************************)
EXTENDS Integers, Sequences, FiniteSets, TLC

VARIABLES
    host_config, \* the plugin's static configuration, as the host passes it
    state,      \* the host's persisted plugin state (a dict; key "runs")
    inflight,   \* <<>> or <<call>>: the invocation whose response is not merged yet
    accepted,   \* history: accepted continuations of the run under each run_id
    outbox      \* history: the events the host has taken from the responses

vars == <<host_config, state, inflight, accepted, outbox>>

(***************************************************************************)
(* Python values                                                           *)
(***************************************************************************)
PyNone == [t |-> "none"]

PyStr(s) == [t |-> "str", s |-> s]

PyInt(n) == [t |-> "int", n |-> n]

PyList(items) == [t |-> "list", items |-> items]

PyDict(d) == [t |-> "dict", d |-> d]

\* The float json.load returns for a number beyond the double range (1e400,
\* Infinity).
PyInf == [t |-> "float", x |-> "inf"]

EmptyDict == [k \in {} |-> PyNone]

isinstance_str(v) == v.t = "str"

isinstance_dict(v) == v.t = "dict"

isinstance_list(v) == v.t = "list"

\* Python truthiness, as used by `a or b` and `if x`.
truthy(v) ==
    CASE v.t = "none" -> FALSE
      [] v.t = "str"  -> v.s # ""
      [] v.t = "int"  -> v.n # 0
      [] v.t = "list" -> Len(v.items) > 0
      [] v.t = "dict" -> DOMAIN v.d # {}

py_or(a, b) == IF truthy(a) THEN a ELSE b

\* d.get(k, default) on the keys of a Python dict.
dict_get(d, k, default) == IF k \in DOMAIN d THEN d[k] ELSE default

\* dict(d, k=v): the dict with key k set.
dict_set(d, k, v) == [x \in DOMAIN d \cup {k} |-> IF x = k THEN v ELSE d[x]]

(***************************************************************************)
(* Strings.  TLC has no character access, so str.strip, int(str) and the   *)
(* URL regex are given by their graphs on the strings the inputs use.      *)
(***************************************************************************)
\* str.strip(): the strings of the model with surrounding whitespace.
strip(s) ==
    CASE s = " "        -> ""
      [] s = " fabric " -> "fabric"
      [] s = " r1"      -> "r1"
      [] OTHER          -> s

\* The decimal literals int(str) accepts, among the strings of the model.
IntLiteral == ("0" :> 0) @@ ("1" :> 1) @@ ("2" :> 2) @@ ("3" :> 3) @@ (" 2 " :> 2) @@ ("-1" :> (0 - 1))

\* re.search(r"https?://[^\s)]+", text): the first match, on the goals of the model.
extract_first_url(text) ==
    CASE text = "summarize https://example.com/a" -> PyStr("https://example.com/a")
      [] text = "compare (http://a.org/x) with https://b.org/y" -> PyStr("http://a.org/x")
      [] OTHER -> PyNone

(***************************************************************************)
(* Helpers of run.py                                                       *)
(***************************************************************************)
log(level, message) == [level |-> level, message |-> message]

ok_response(events, state_updates, logs) ==
    [status |-> "ok", events |-> events, state_updates |-> state_updates, logs |-> logs]

\* Mutant of error_response: the error carries an emptied run collection.
error_response_resets_runs(message, retry) ==
    [status |-> "error", error |-> message, retry |-> retry,
     state_updates |-> [runs |-> PyDict(EmptyDict)],
     logs |-> <<log("error", message)>>]

\* Mutant of error_response: the retry hint is always set.
error_response_retryable(message, retry) ==
    [status |-> "error", error |-> message, retry |-> TRUE,
     logs |-> <<log("error", message)>>]

\* Mutant of error_response: the error carries no logs.
error_response_without_logs(message, retry) ==
    [status |-> "error", error |-> message, retry |-> retry]

\* Mutant of error_response: the retry hint is inverted.
error_response_negates_retry(message, retry) ==
    [status |-> "error", error |-> message, retry |-> ~retry,
     logs |-> <<log("error", message)>>]

error_response(message, retry) ==
    [status |-> "error", error |-> message, retry |-> retry,
     logs |-> <<log("error", message)>>]

\* What the process leaves when an exception escapes main: no response.
Traceback(exc) == [traceback |-> exc]

\* Mutant of normalize_runs: the stored runs are never found.
normalize_runs_finds_none(st) == EmptyDict

\* state.get("runs", {}) when that is a dict, else {}.
normalize_runs(st) ==
    LET runs == dict_get(st, "runs", PyDict(EmptyDict))
    IN  IF isinstance_dict(runs) THEN runs.d ELSE EmptyDict

\* int(value) raises TypeError on None, list and dict, ValueError on a string
\* that is no decimal literal.
int_raises(value) ==
    CASE value.t = "int" -> FALSE
      [] value.t = "str" -> value.s \notin DOMAIN IntLiteral
      [] OTHER -> TRUE

\* int(value) raises OverflowError on an infinite float; coerce_int catches
\* TypeError and ValueError only, so this one escapes it.
int_overflows(value) == value = PyInf

int_of(value) == IF value.t = "int" THEN value.n ELSE IntLiteral[value.s]

\* Mutant of coerce_int: zero counts as a usable value.
coerce_int_accepts_zero(value, default) ==
    IF int_raises(value) THEN default
    ELSE IF int_of(value) >= 0 THEN int_of(value) ELSE default

coerce_int(value, default) ==
    IF int_raises(value) THEN default
    ELSE IF int_of(value) > 0 THEN int_of(value) ELSE default

keep_item(item) == isinstance_str(item) /\ strip(item.s) # ""

\* The stripped non-blank strings of config[key] when that is a list, as a
\* sequence of strings.
config_list(config, key) ==
    LET value == dict_get(config, key, PyList(<<>>))
    IN  IF ~isinstance_list(value) THEN <<>>
        ELSE LET kept == SelectSeq(value.items, keep_item)
             IN  [i \in 1..Len(kept) |-> strip(kept[i].s)]

in_list(x, list) == \E i \in 1..Len(list) : list[i] = x

valid_tool(tool) == isinstance_str(tool) /\ strip(tool.s) # ""

\* Returns <<tool, tool_command, tool_payload>>: tool and tool_command are
\* strings, tool_payload a dict.
choose_first_tool(goal, context, config) ==
    LET tool0 == py_or(dict_get(context, "tool", PyNone),
                       dict_get(context, "initial_tool", PyNone))
        tool_command == py_or(py_or(dict_get(context, "tool_command", PyNone),
                                    dict_get(config, "default_tool_command", PyNone)),
                              PyStr("handle"))
        provided_payload == dict_get(context, "tool_payload", PyNone)
        payload0 == IF isinstance_dict(provided_payload) THEN provided_payload.d ELSE EmptyDict
        tool1 == IF ~valid_tool(tool0) THEN dict_get(config, "default_tool", PyNone) ELSE tool0
        url == extract_first_url(goal)
        heuristic == ~valid_tool(tool1)
        tool2 == IF heuristic
                 THEN (IF truthy(url) THEN PyStr("jina-reader") ELSE PyStr("fabric"))
                 ELSE tool1
        payload1 == IF heuristic /\ truthy(url) /\ "url" \notin DOMAIN payload0
                    THEN dict_set(payload0, "url", url) ELSE payload0
        payload2 == IF tool2 = PyStr("jina-reader") /\ "url" \notin DOMAIN payload1 /\ truthy(url)
                    THEN dict_set(payload1, "url", url) ELSE payload1
    IN  <<tool2.s,
          IF tool_command.t = "str" THEN tool_command.s ELSE ToString(tool_command.n),
          payload2>>

\* Mutant of dedupe_key: the step is left out of the key.
dedupe_key_by_run(run_id, step) == "agentic:run:" \o run_id \o ":request"

\* f"agentic:run:{run_id}:step:{step}:request"
dedupe_key(run_id, step) == "agentic:run:" \o run_id \o ":step:" \o ToString(step) \o ":request"

\* Mutant of make_tool_request_event: the request names the step that
\* follows the one the run waits on.
make_tool_request_event_next_step(run_id, step, tool, tool_command, tool_payload, now) ==
    [type |-> "agentic.tool_request",
     payload |-> [run_id |-> run_id, step |-> step + 1, tool |-> tool,
                  tool_command |-> tool_command, tool_payload |-> tool_payload,
                  requested_at |-> now],
     dedupe_key |-> dedupe_key(run_id, step)]

make_tool_request_event(run_id, step, tool, tool_command, tool_payload, now) ==
    [type |-> "agentic.tool_request",
     payload |-> [run_id |-> run_id, step |-> step, tool |-> tool,
                  tool_command |-> tool_command, tool_payload |-> tool_payload,
                  requested_at |-> now],
     dedupe_key |-> dedupe_key(run_id, step)]

DefaultMaxSteps == 20

DefaultMaxReframes == 2

py_str(v) == IF v.t = "str" THEN v.s ELSE IF v.t = "int" THEN ToString(v.n) ELSE "None"

(***************************************************************************)
(* run_start: validate the payload, choose the first tool, create the run  *)
(* record and emit the first tool request.  now and uuid are the values    *)
(* now_iso() and str(uuid4()) return in this invocation.                   *)
(***************************************************************************)
\* Mutant of new_run: the step counters start at 0.
new_run_from_zero(goal, max_steps, max_reframes, tool, tool_command, now) ==
    [status |-> "running", goal |-> goal, created_at |-> now, updated_at |-> now,
     step |-> 0, max_steps |-> max_steps, reframes |-> 0, max_reframes |-> max_reframes,
     pending_step |-> PyInt(0), pending_tool |-> PyStr(tool), pending_since |-> now,
     last_tool_command |-> tool_command]

new_run(goal, max_steps, max_reframes, tool, tool_command, now) ==
    [status |-> "running", goal |-> goal, created_at |-> now, updated_at |-> now,
     step |-> 1, max_steps |-> max_steps, reframes |-> 0, max_reframes |-> max_reframes,
     pending_step |-> PyInt(1), pending_tool |-> PyStr(tool), pending_since |-> now,
     last_tool_command |-> tool_command]

\* Mutant of resolve_run_id: the caller's run_id is ignored.
resolve_run_id_always_fresh(run_id0, uuid) == uuid

\* The caller's run_id when it is a non-blank string, else str(uuid4()).
resolve_run_id(run_id0, uuid) ==
    IF ~isinstance_str(run_id0) \/ strip(run_id0.s) = "" THEN uuid ELSE run_id0.s

run_start(config, st, event, now, uuid) ==
    LET payload == dict_get(event, "payload", PyDict(EmptyDict))
    IN  IF ~isinstance_dict(payload)
        THEN error_response("agentic.start payload must be an object", FALSE)
        ELSE
        LET goal == dict_get(payload.d, "goal", PyNone)
        IN  IF ~isinstance_str(goal) \/ strip(goal.s) = ""
            THEN error_response("agentic.start requires non-empty payload.goal", FALSE)
            ELSE
            LET context0 == dict_get(payload.d, "context", PyNone)
                context == IF isinstance_dict(context0) THEN context0.d ELSE EmptyDict
                runs == normalize_runs(st)
                run_id0 == dict_get(payload.d, "run_id", PyNone)
                run_id == resolve_run_id(run_id0, uuid)
                max_steps_cfg == coerce_int(dict_get(config, "max_steps", PyNone), DefaultMaxSteps)
                max_steps == coerce_int(dict_get(context, "max_steps", PyNone), max_steps_cfg)
                max_reframes == coerce_int(dict_get(config, "max_reframes", PyNone), DefaultMaxReframes)
                chosen == choose_first_tool(goal.s, context, config)
                tool == chosen[1]
                tool_command == chosen[2]
                tool_payload == chosen[3]
                allowed_plugins == config_list(config, "allowed_plugins")
            IN  IF \/ int_overflows(dict_get(config, "max_steps", PyNone))
                   \/ int_overflows(dict_get(context, "max_steps", PyNone))
                   \/ int_overflows(dict_get(config, "max_reframes", PyNone))
                THEN Traceback("OverflowError")
                ELSE IF Len(allowed_plugins) > 0 /\ ~in_list(tool, allowed_plugins)
                THEN error_response("tool '" \o tool \o "' is not allowed", FALSE)
                ELSE
                LET run == new_run(goal.s, max_steps, max_reframes, tool, tool_command, now)
                    runs1 == dict_set(runs, run_id, run)
                    tool_request == make_tool_request_event(run_id, 1, tool, tool_command,
                                                            tool_payload, now)
                IN  ok_response(<<tool_request>>,
                                [runs |-> PyDict(runs1), last_run_id |-> PyStr(run_id)],
                                <<log("info", "started run " \o run_id),
                                  log("info", "step=1 pending_tool=" \o tool)>>)

(***************************************************************************)
(* run_tool_result: validate the payload, correlate it with the run and    *)
(* advance, complete or escalate the run.                                  *)
(***************************************************************************)
\* Mutant of escalated_run: the escalation also moves the run to the next step.
escalated_run_bumps_step(run, now) ==
    [run EXCEPT !.status = "escalated", !.updated_at = now, !.step = @ + 1]

\* run["status"] = "escalated"; run["updated_at"] = now_iso()
escalated_run(run, now) == [run EXCEPT !.status = "escalated", !.updated_at = now]

\* Mutant of escalate: the run is escalated but no event is emitted.
escalate_without_event(runs, run_id, run, now, event_payload, message) ==
    ok_response(<<>>,
                [runs |-> PyDict(dict_set(runs, run_id, escalated_run(run, now)))],
                <<log("error", message)>>)

escalate(runs, run_id, run, now, event_payload, message) ==
    LET run1 == escalated_run(run, now)
    IN  ok_response(<<[type |-> "agent.escalated", payload |-> event_payload]>>,
                    [runs |-> PyDict(dict_set(runs, run_id, run1))],
                    <<log("error", message)>>)

\* Mutant of advance_run: pending_step is not moved to the next step.
advance_run_keeps_pending_step(run, next_step, next_tool, now) ==
    [run EXCEPT !.step = next_step, !.pending_tool = PyStr(next_tool),
                !.pending_since = now, !.updated_at = now, !.last_tool_command = "handle"]

\* Mutant of advance_run: the step counter is added to instead of set.
advance_run_adds_step(run, next_step, next_tool, now) ==
    [run EXCEPT !.step = @ + next_step, !.pending_step = PyInt(run.step + next_step),
                !.pending_tool = PyStr(next_tool), !.pending_since = now,
                !.updated_at = now, !.last_tool_command = "handle"]

\* Mutant of advance_run: the run keeps waiting for the tool that answered.
advance_run_keeps_pending_tool(run, next_step, next_tool, now) ==
    [run EXCEPT !.step = next_step, !.pending_step = PyInt(next_step),
                !.pending_since = now, !.updated_at = now, !.last_tool_command = "handle"]

\* Mutant of advance_run: the next step is handed to jina-reader again.
advance_run_fetches_again(run, next_step, next_tool, now) ==
    [run EXCEPT !.step = next_step, !.pending_step = PyInt(next_step),
                !.pending_tool = PyStr("jina-reader"), !.pending_since = now,
                !.updated_at = now, !.last_tool_command = "handle"]

\* Mutant of advance_run: the advance is counted as a reframe.
advance_run_counts_reframe(run, next_step, next_tool, now) ==
    [run EXCEPT !.step = next_step, !.pending_step = PyInt(next_step),
                !.pending_tool = PyStr(next_tool), !.pending_since = now,
                !.updated_at = now, !.last_tool_command = "handle",
                !.reframes = run.reframes + 1]

\* The run after an advance to next_step, waiting for next_tool.
advance_run(run, next_step, next_tool, now) ==
    [run EXCEPT !.step = next_step, !.pending_step = PyInt(next_step),
                !.pending_tool = PyStr(next_tool), !.pending_since = now,
                !.updated_at = now, !.last_tool_command = "handle"]

\* The follow-up branch: the result of jina-reader is handed to fabric.
followup(config, runs, run_id, run, step_num, result, now) ==
    LET next_step == step_num + 1
        critique_prompt == "Write a constructive two-paragraph critique of the supplied webpage content."
        source_text == IF isinstance_dict(result)
                       THEN py_str(py_or(py_or(dict_get(result.d, "text", PyNone),
                                               dict_get(result.d, "excerpt", PyNone)),
                                         PyStr("")))
                       ELSE IF isinstance_str(result) THEN result.s ELSE ""
        next_payload == IF source_text # ""
                        THEN [prompt |-> PyStr(critique_prompt), text |-> PyStr(source_text)]
                        ELSE [prompt |-> PyStr(critique_prompt)]
        next_tool == "fabric"
        allowed_plugins == config_list(config, "allowed_plugins")
    IN  IF Len(allowed_plugins) > 0 /\ ~in_list(next_tool, allowed_plugins)
        THEN escalate(runs, run_id, run, now,
                      [run_id |-> run_id, reason |-> "followup_tool_not_allowed",
                       tool |-> next_tool],
                      "run " \o run_id \o " escalated: follow-up tool '" \o next_tool \o "' not allowed")
        ELSE
        LET run1 == advance_run(run, next_step, next_tool, now)
        IN  ok_response(<<make_tool_request_event(run_id, next_step, next_tool, "handle",
                                                  next_payload, now)>>,
                        [runs |-> PyDict(dict_set(runs, run_id, run1))],
                        <<log("info", "run " \o run_id \o " advanced to step="
                                      \o ToString(next_step) \o " tool=" \o next_tool)>>)

\* Mutant of done_run: the record is returned as it was stored.
done_run_leaves_record(run, now) == run

\* Mutant of done_run: the pending fields are left as they were.
done_run_keeps_pending(run, now) == [run EXCEPT !.status = "done", !.updated_at = now]

\* The run once finished: pending_step and pending_tool are cleared.
done_run(run, now) ==
    [run EXCEPT !.status = "done", !.updated_at = now,
                !.pending_step = PyNone, !.pending_tool = PyNone]

\* The default terminal path: any other tool's result finishes the run.
complete(runs, run_id, run, step_num, result, now) ==
    LET run1 == done_run(run, now)
        maybe_outcome == IF isinstance_dict(result)
                         THEN py_or(py_or(dict_get(result.d, "result", PyNone),
                                          dict_get(result.d, "summary", PyNone)),
                                    PyStr(""))
                         ELSE PyNone
        outcome0 == IF isinstance_dict(result)
                    THEN (IF isinstance_str(maybe_outcome) THEN maybe_outcome.s ELSE "")
                    ELSE IF isinstance_str(result) THEN result.s ELSE ""
        artifact_path == IF isinstance_dict(result)
                         THEN py_or(dict_get(result.d, "artifact_path", PyNone),
                                    dict_get(result.d, "output_path", PyNone))
                         ELSE PyNone
        artifacts == IF isinstance_str(artifact_path) /\ artifact_path.s # ""
                     THEN <<artifact_path.s>> ELSE <<>>
        outcome == IF outcome0 = ""
                   THEN "Run " \o run_id \o " completed at step " \o ToString(step_num)
                   ELSE outcome0
    IN  ok_response(<<[type |-> "agent.completed",
                       payload |-> [run_id |-> run_id, goal |-> dict_get(run, "goal", ""),
                                    outcome |-> outcome, steps_taken |-> step_num,
                                    artifacts |-> artifacts]]>>,
                    [runs |-> PyDict(dict_set(runs, run_id, run1)), last_run_id |-> PyStr(run_id)],
                    <<log("info", "run " \o run_id \o " completed in "
                                  \o ToString(step_num) \o " step(s)")>>)

\* Mutants of the correlation checks.
is_terminal_only_done(run) == dict_get(run, "status", "") = "done"

is_stale_off_by_one(step_num, pending_step) == step_num + 1 < pending_step

is_stale_never(step_num, pending_step) == FALSE

step_mismatch_tolerates_next(step_num, pending_step) == step_num > pending_step + 1

tool_mismatch_skips_fetch(tool, pending_tool) ==
    PyStr(tool) # pending_tool /\ tool # "jina-reader"

exceeds_max_steps_strict(step_num, max_steps) == step_num > max_steps

exceeds_max_steps_never(step_num, max_steps) == FALSE

tool_failed_only_error(status) == status = "error"

ignore_unknown_run_as_error(run_id) ==
    error_response("unknown run_id=" \o run_id, FALSE)

\* The correlation checks of run_tool_result, in the order it makes them.
is_terminal(run) == dict_get(run, "status", "") # "running"

is_stale(step_num, pending_step) == step_num < pending_step

step_mismatch(step_num, pending_step) == step_num # pending_step

tool_mismatch(tool, pending_tool) == PyStr(tool) # pending_tool

tool_failed(status) == status # "ok"

exceeds_max_steps(step_num, max_steps) == step_num >= max_steps

ignore_unknown_run(run_id) ==
    ok_response(<<>>, EmptyDict,
                <<log("warn", "unknown run_id=" \o run_id \o "; ignoring result event")>>)

\* Lines 245-405: the result is on the pending step of a running run.
on_step(config, runs, run_id, run, tool, step_num, status, result, error, now) ==
    LET pending_tool == dict_get(run, "pending_tool", PyNone)
        max_steps == coerce_int(PyInt(run.max_steps), DefaultMaxSteps)
    IN  IF tool_mismatch(tool, pending_tool)
        THEN escalate(runs, run_id, run, now,
                      [run_id |-> run_id, reason |-> "pending_tool_mismatch",
                       expected_tool |-> pending_tool, actual_tool |-> tool],
                      "run " \o run_id \o " escalated: expected_tool="
                             \o py_str(pending_tool) \o " actual_tool=" \o tool)
        ELSE IF tool_failed(status)
        THEN escalate(runs, run_id, run, now,
                      [run_id |-> run_id, reason |-> "tool_error", step |-> step_num,
                       tool |-> tool, error |-> py_or(error, PyStr("unknown tool error"))],
                      "run " \o run_id \o " escalated from tool error at step=" \o ToString(step_num))
        ELSE IF exceeds_max_steps(step_num, max_steps)
        THEN escalate(runs, run_id, run, now,
                      [run_id |-> run_id, reason |-> "max_steps_exceeded", step |-> step_num,
                       max_steps |-> max_steps],
                      "run " \o run_id \o " escalated: max_steps exceeded")
        ELSE IF tool = "jina-reader"
        THEN followup(config, runs, run_id, run, step_num, result, now)
        ELSE complete(runs, run_id, run, step_num, result, now)

run_tool_result(config, st, event, now) ==
    LET payload == dict_get(event, "payload", PyDict(EmptyDict))
    IN  IF ~isinstance_dict(payload)
        THEN error_response("agentic.tool_result payload must be an object", FALSE)
        ELSE
        LET run_id == dict_get(payload.d, "run_id", PyNone)
            tool == dict_get(payload.d, "tool", PyNone)
            step == dict_get(payload.d, "step", PyNone)
            status == dict_get(payload.d, "status", PyNone)
            result == dict_get(payload.d, "result", PyNone)
            error == dict_get(payload.d, "error", PyNone)
            step_num == coerce_int(step, 0 - 1)
        IN  IF ~isinstance_str(run_id) \/ run_id.s = ""
            THEN error_response("agentic.tool_result missing payload.run_id", FALSE)
            ELSE IF ~isinstance_str(tool) \/ tool.s = ""
            THEN error_response("agentic.tool_result missing payload.tool", FALSE)
            ELSE IF int_overflows(step)
            THEN Traceback("OverflowError")
            ELSE IF step_num < 1
            THEN error_response("agentic.tool_result missing or invalid payload.step", FALSE)
            ELSE IF ~isinstance_str(status) \/ status.s = ""
            THEN error_response("agentic.tool_result missing payload.status", FALSE)
            ELSE
            LET runs == normalize_runs(st)
            IN  IF run_id.s \notin DOMAIN runs
                THEN ignore_unknown_run(run_id.s)
                ELSE
                LET run == runs[run_id.s]
                    pending_step == coerce_int(dict_get(run, "pending_step", PyNone), 0 - 1)
                IN  IF is_terminal(run)
                    THEN ok_response(<<>>, EmptyDict,
                                     <<log("info", "run_id=" \o run_id.s \o " already terminal ("
                                                   \o run.status \o "); ignoring")>>)
                    ELSE IF is_stale(step_num, pending_step)
                    THEN ok_response(<<>>, EmptyDict,
                                     <<log("info", "stale result for run_id=" \o run_id.s)>>)
                    ELSE IF step_mismatch(step_num, pending_step)
                    THEN error_response("protocol violation: step mismatch run_id=" \o run_id.s,
                                        FALSE)
                    ELSE on_step(config, runs, run_id.s, run, tool.s, step_num, status.s,
                                 result, error, now)

(***************************************************************************)
(* Commands and dispatch                                                   *)
(***************************************************************************)
count_running(runs) == Cardinality({k \in DOMAIN runs : runs[k].status = "running"})

poll_command_prunes_runs(st, now) ==
    LET runs == normalize_runs(st)
        kept == [k \in {r \in DOMAIN runs : runs[r].status = "running"} |-> runs[k]]
    IN  ok_response(<<>>, [last_poll |-> PyStr(now), runs |-> kept],
                    <<log("info", "agentic-loop poll noop; running_runs="
                                  \o ToString(count_running(runs)))>>)

poll_command(st, now) ==
    LET runs == normalize_runs(st)
    IN  ok_response(<<>>, [last_poll |-> PyStr(now)],
                    <<log("info", "agentic-loop poll noop; running_runs="
                                  \o ToString(count_running(runs)))>>)

health_command(config, st, now) ==
    LET max_steps == coerce_int(dict_get(config, "max_steps", PyNone), DefaultMaxSteps)
        runs == normalize_runs(st)
    IN  IF int_overflows(dict_get(config, "max_steps", PyNone))
        THEN Traceback("OverflowError")
        ELSE ok_response(<<>>,
                         [last_health_check |-> PyStr(now), configured_max_steps |-> PyInt(max_steps)],
                         <<log("info", "healthy; tracked_runs=" \o ToString(Cardinality(DOMAIN runs)))>>)

handle_command_drops_trigger(config, st, event, now, uuid) ==
    LET event_type == dict_get(event, "type", PyStr(""))
    IN  IF event_type = PyStr("agentic.start")
        THEN run_start(config, st, event, now, uuid)
        ELSE IF event_type = PyStr("agentic.tool_result")
        THEN run_tool_result(config, st, event, now)
        ELSE error_response("unsupported event type '" \o py_str(event_type) \o "'", FALSE)

handle_command(config, st, event, now, uuid) ==
    LET event_type == dict_get(event, "type", PyStr(""))
    IN  IF event_type \in {PyStr("agentic.start"), PyStr("api.trigger")}
        THEN run_start(config, st, event, now, uuid)
        ELSE IF event_type = PyStr("agentic.tool_result")
        THEN run_tool_result(config, st, event, now)
        ELSE error_response("unsupported event type '" \o py_str(event_type) \o "'", FALSE)

\* request is the text on stdin: [raw |-> "invalid_json"], or [raw |-> "json",
\* value |-> v] with v the value json.load returns.
main(request, now, uuid) ==
    IF request.raw = "invalid_json"
    THEN error_response("invalid request JSON", FALSE)
    ELSE IF ~isinstance_dict(request.value)
    THEN Traceback("AttributeError")
    ELSE
    LET command == dict_get(request.value.d, "command", PyStr(""))
        config0 == dict_get(request.value.d, "config", PyDict(EmptyDict))
        state0 == dict_get(request.value.d, "state", PyDict(EmptyDict))
        event0 == dict_get(request.value.d, "event", PyDict(EmptyDict))
        cfg == IF isinstance_dict(config0) THEN config0.d ELSE EmptyDict
        st == IF isinstance_dict(state0) THEN state0.d ELSE EmptyDict
        event == IF isinstance_dict(event0) THEN event0.d ELSE EmptyDict
    IN  IF command = PyStr("poll") THEN poll_command(st, now)
        ELSE IF command = PyStr("handle") THEN handle_command(cfg, st, event, now, uuid)
        ELSE IF command = PyStr("health") THEN health_command(cfg, st, now)
        ELSE error_response("unknown command: " \o py_str(command), FALSE)

(***************************************************************************)
(* Inputs                                                                  *)
(***************************************************************************)
\* Largest max_steps an event context asks for.
MaxMaxSteps == 3

\* Largest step a tool_result carries.
MaxStepInput == 3

Times == {"t0"}

UuidPool == {"u1"}

AllRunIds == {"r1", "u1", "zz"}

Configs ==
    { EmptyDict,
      [allowed_plugins |-> PyList(<<PyStr("jina-reader")>>)],
      [allowed_plugins |-> PyList(<<PyStr("jina-reader"), PyStr(" fabric "), PyStr(" "), PyInt(7)>>),
       max_steps |-> PyStr(" 2 ")],
      [allowed_plugins |-> PyStr("fabric"), default_tool |-> PyStr("file_handler"),
       max_steps |-> PyInt(1), max_reframes |-> PyInt(3)],
      [allowed_plugins |-> PyList(<<>>), max_steps |-> PyInt(1)],
      [allowed_plugins |-> PyList(<<PyStr(" "), PyInt(7)>>), max_steps |-> PyInt(2)],
      [max_steps |-> PyInf] }

ValidGoals == {"summarize https://example.com/a", "write a haiku"}

\* Contexts that name the first tool, and contexts that set max_steps.
ContextTools ==
    { [tool |-> PyStr("jina-reader"), tool_payload |-> PyDict([url |-> PyStr("https://caller/u")])],
      [tool |-> PyStr("fabric")],
      [tool |-> PyStr(" "), initial_tool |-> PyStr("file_handler")] }

\* max_steps from zero to the bound, and one beyond the double range.
ContextMaxSteps == {[max_steps |-> PyInt(n)] : n \in 0..MaxMaxSteps} \cup {[max_steps |-> PyInf]}

Contexts == {PyNone, PyDict(EmptyDict)} \cup {PyDict(c) : c \in ContextTools \cup ContextMaxSteps}

\* Starts under the caller's run_id "r1", and starts that leave the run_id
\* to uuid4().
StartPayloads ==
    {PyList(<<>>), PyDict(EmptyDict), PyDict([goal |-> PyStr(" ")]), PyDict([goal |-> PyInt(5)])}
    \cup {PyDict([goal |-> PyStr(g), context |-> c, run_id |-> PyStr("r1")]) :
            g \in ValidGoals, c \in Contexts}
    \cup {PyDict([goal |-> PyStr("summarize https://example.com/a")] @@ r) :
            r \in {EmptyDict, [run_id |-> PyStr(" ")]}}

TriggerPayloads ==
    {PyDict(EmptyDict)}
    \cup {PyDict([goal |-> PyStr(g), run_id |-> PyStr("r1")]) : g \in ValidGoals}

Tools == {"jina-reader", "fabric", "file_handler"}

StepInputs == {PyInt(n) : n \in 1..MaxStepInput}

\* status, result and error of a tool result.
Outcomes ==
    { [status |-> PyStr("ok")],
      [status |-> PyStr("ok"), result |-> PyStr("done text")],
      [status |-> PyStr("ok"), result |-> PyDict([text |-> PyStr("hello")])],
      [status |-> PyStr("error")],
      [status |-> PyStr("failed"), error |-> PyStr("boom")] }

\* Every tool, step and outcome for the caller's run; every tool and step
\* with a plain ok or error for the other run; one result for a run_id that
\* is never started.
WellFormedResults ==
    {PyDict([run_id |-> PyStr("r1"), tool |-> PyStr(t), step |-> n] @@ o) :
        t \in Tools, n \in StepInputs, o \in Outcomes}
    \cup {PyDict([run_id |-> PyStr("u1"), tool |-> PyStr(t), step |-> n, status |-> PyStr(st)]) :
            t \in Tools, n \in StepInputs, st \in {"ok", "error"}}
    \cup {PyDict([run_id |-> PyStr("zz"), tool |-> PyStr("fabric"), step |-> PyInt(1),
                  status |-> PyStr("ok")])}

MalformedResults ==
    { PyStr("r1"),
      PyDict([tool |-> PyStr("fabric"), step |-> PyInt(1), status |-> PyStr("ok")]),
      PyDict([run_id |-> PyStr(""), tool |-> PyStr("")]),
      PyDict([run_id |-> PyStr("r1"), tool |-> PyInt(3), step |-> PyInt(0)]),
      PyDict([run_id |-> PyStr("r1"), tool |-> PyStr("fabric"), step |-> PyInt(0)]),
      PyDict([run_id |-> PyStr("zz"), tool |-> PyStr("fabric"), step |-> PyStr("x"), status |-> PyStr("")]),
      PyDict([run_id |-> PyStr("r1"), tool |-> PyStr("fabric"), step |-> PyInt(1), status |-> PyStr("")]),
      PyDict([run_id |-> PyStr("u1"), tool |-> PyStr("fabric"), step |-> PyInt(1)]) }

\* A result whose step is a decimal string: coerce_int accepts it.
StringStepResults ==
    {PyDict([run_id |-> PyStr("r1"), tool |-> PyStr("fabric"), step |-> PyStr("2"),
             status |-> PyStr("ok")])}

\* Results of the fetch tool that carry their text under excerpt, and results
\* of fabric that carry an outcome and an artifact.
FetchOutcomes ==
    { [status |-> PyStr("ok"), result |-> PyDict([excerpt |-> PyStr("short")])],
      [status |-> PyStr("ok"),
       result |-> PyDict([text |-> PyStr(""), excerpt |-> PyStr("short")])] }

FinalOutcomes ==
    { [status |-> PyStr("ok"),
       result |-> PyDict([result |-> PyStr("critique"), summary |-> PyStr("sum"),
                          artifact_path |-> PyStr("/out/a.md")])],
      [status |-> PyStr("ok"),
       result |-> PyDict([summary |-> PyStr("sum"), output_path |-> PyStr("/out/b.md")])] }

DetailedResults ==
    {PyDict([run_id |-> PyStr("r1"), tool |-> PyStr("jina-reader"), step |-> n] @@ o) :
        n \in StepInputs, o \in FetchOutcomes}
    \cup {PyDict([run_id |-> PyStr("r1"), tool |-> PyStr("fabric"), step |-> n] @@ o) :
            n \in StepInputs, o \in FinalOutcomes}

\* Results whose step is a number beyond the double range.
OverflowResults ==
    { PyDict([run_id |-> PyStr("zz"), tool |-> PyStr("fabric"), step |-> PyInf,
              status |-> PyStr("ok")]),
      PyDict([run_id |-> PyStr("r1"), tool |-> PyInt(3), step |-> PyInf]) }

ResultPayloads ==
    WellFormedResults \cup DetailedResults \cup MalformedResults \cup StringStepResults
    \cup OverflowResults

OtherEvents ==
    { [type |-> PyStr("agentic.cancel"), payload |-> PyDict([run_id |-> PyStr("r1")])],
      [payload |-> PyDict([goal |-> PyStr("write a haiku")])] }

OtherCommands == {[command |-> PyStr("reset")], EmptyDict}

\* The request the host writes to the plugin's stdin, without the state
\* snapshot; with_state adds the persisted state.
handle_request(event) ==
    [raw |-> "json",
     value |-> PyDict([command |-> PyStr("handle"), config |-> PyDict(host_config),
                       event |-> PyDict(event)])]

command_request(fields) ==
    [raw |-> "json", value |-> PyDict(fields @@ [config |-> PyDict(host_config)])]

with_state(request, st) ==
    IF request.raw = "json" /\ isinstance_dict(request.value)
    THEN [request EXCEPT !.value = PyDict(dict_set(request.value.d, "state", PyDict(st)))]
    ELSE request

\* One invocation of the plugin on request, with the snapshot st of the state.
plugin(request, st, now, uuid) == main(with_state(request, st), now, uuid)

(***************************************************************************)
(* The host.  It keeps the plugin state, calls the plugin with a snapshot  *)
(* of it, and merges the response's state_updates into it.  Only the key   *)
(* "runs" of the persisted state is kept: no handler reads another key.    *)
(***************************************************************************)
Idle == inflight = <<>>

Busy == Len(inflight) = 1

call == inflight[1]

runs_of(st) == normalize_runs(st)

state_updates_of(resp) ==
    IF "state_updates" \in DOMAIN resp THEN resp.state_updates ELSE EmptyDict

\* The events of a response; an error response has none.
events_of(resp) == IF "events" \in DOMAIN resp THEN resp.events ELSE <<>>

merge_state(st, resp) ==
    LET su == state_updates_of(resp)
    IN  IF "runs" \in DOMAIN su THEN dict_set(st, "runs", su.runs) ELSE st

\* uuid4() returns a run_id no run has: a response that used uuid for a run
\* that exists is excluded.
uuid_fresh(resp, uuid) ==
    ~ /\ uuid \in DOMAIN runs_of(state)
      /\ "state_updates" \in DOMAIN resp
      /\ "last_run_id" \in DOMAIN resp.state_updates
      /\ resp.state_updates.last_run_id = PyStr(uuid)

Invoke(request, now, uuid) ==
    /\ inflight' = <<[request |-> request, now |-> now,
                      response |-> plugin(request, state, now, uuid)]>>
    /\ UNCHANGED <<host_config, state, accepted, outbox>>

InvokeStart ==
    /\ Idle
    /\ \E payload \in StartPayloads, now \in Times, uuid \in UuidPool :
        LET request == handle_request([type |-> PyStr("agentic.start"), payload |-> payload])
        IN  /\ uuid_fresh(plugin(request, state, now, uuid), uuid)
            /\ Invoke(request, now, uuid)

InvokeTrigger ==
    /\ Idle
    /\ \E payload \in TriggerPayloads, now \in Times, uuid \in UuidPool :
        Invoke(handle_request([type |-> PyStr("api.trigger"), payload |-> payload]), now, uuid)

InvokeToolResult ==
    /\ Idle
    /\ \E payload \in ResultPayloads, now \in Times, uuid \in UuidPool :
        Invoke(handle_request([type |-> PyStr("agentic.tool_result"), payload |-> payload]),
               now, uuid)

InvokeOtherEvent ==
    /\ Idle
    /\ \E event \in OtherEvents, now \in Times, uuid \in UuidPool :
        Invoke(handle_request(event), now, uuid)

InvokePoll ==
    /\ Idle
    /\ \E now \in Times, uuid \in UuidPool :
        Invoke(command_request([command |-> PyStr("poll")]), now, uuid)

InvokeHealth ==
    /\ Idle
    /\ \E now \in Times, uuid \in UuidPool :
        Invoke(command_request([command |-> PyStr("health")]), now, uuid)

InvokeOtherCommand ==
    /\ Idle
    /\ \E fields \in OtherCommands, now \in Times, uuid \in UuidPool :
        Invoke(command_request(fields), now, uuid)

\* Text that is not JSON, JSON that is not an object, and objects whose
\* config or event is not an object.
MalformedRequests ==
    { [raw |-> "invalid_json"],
      [raw |-> "json", value |-> PyList(<<>>)],
      [raw |-> "json", value |-> PyStr("poll")],
      [raw |-> "json", value |-> PyDict([command |-> PyStr("health"), config |-> PyList(<<>>)])],
      [raw |-> "json", value |-> PyDict([command |-> PyStr("handle"), config |-> PyInt(1),
                                         event |-> PyStr("agentic.start")])] }

InvokeMalformed ==
    /\ Idle
    /\ \E request \in MalformedRequests, now \in Times, uuid \in UuidPool :
        Invoke(request, now, uuid)

(***************************************************************************)
(* Reading a request the way main, handle_command and run_tool_result do.  *)
(***************************************************************************)
req_fields(request) ==
    IF request.raw = "json" /\ isinstance_dict(request.value) THEN request.value.d ELSE EmptyDict

req_command(request) == dict_get(req_fields(request), "command", PyStr(""))

req_event(request) ==
    LET event == dict_get(req_fields(request), "event", PyDict(EmptyDict))
    IN  IF isinstance_dict(event) THEN event.d ELSE EmptyDict

req_type(request) == dict_get(req_event(request), "type", PyStr(""))

\* The payload's fields, when the payload is a dict.
req_payload(request) ==
    LET payload == dict_get(req_event(request), "payload", PyDict(EmptyDict))
    IN  IF isinstance_dict(payload) THEN payload.d ELSE EmptyDict

is_start(request) ==
    /\ req_command(request) = PyStr("handle")
    /\ req_type(request) \in {PyStr("agentic.start"), PyStr("api.trigger")}

is_tool_result(request) ==
    /\ req_command(request) = PyStr("handle")
    /\ req_type(request) = PyStr("agentic.tool_result")

nonempty_str(v) == isinstance_str(v) /\ v.s # ""

\* A tool_result whose four required fields pass validation (lines 211-219).
well_formed_result(request) ==
    /\ is_tool_result(request)
    /\ isinstance_dict(dict_get(req_event(request), "payload", PyDict(EmptyDict)))
    /\ nonempty_str(dict_get(req_payload(request), "run_id", PyNone))
    /\ nonempty_str(dict_get(req_payload(request), "tool", PyNone))
    /\ coerce_int(dict_get(req_payload(request), "step", PyNone), 0 - 1) >= 1
    /\ nonempty_str(dict_get(req_payload(request), "status", PyNone))

result_run_id(request) == req_payload(request).run_id.s

result_tool(request) == req_payload(request).tool.s

result_step(request) == coerce_int(req_payload(request).step, 0 - 1)

result_status(request) == req_payload(request).status.s

\* A well-formed result addressed to a run of st that is running.
to_running_run(request, st) ==
    /\ well_formed_result(request)
    /\ result_run_id(request) \in DOMAIN runs_of(st)
    /\ runs_of(st)[result_run_id(request)].status = "running"

pending_step_of(run) == coerce_int(run.pending_step, 0 - 1)

\* An accepted continuation: on the pending step and the pending tool of a
\* running run.
accepted_continuation(request, st) ==
    /\ to_running_run(request, st)
    /\ result_step(request) = pending_step_of(runs_of(st)[result_run_id(request)])
    /\ PyStr(result_tool(request)) = runs_of(st)[result_run_id(request)].pending_tool

\* The run_id of the run a start response created.
started_run(request, resp) ==
    IF is_start(request) /\ "status" \in DOMAIN resp /\ resp.status = "ok"
    THEN {resp.state_updates.last_run_id.s} ELSE {}

HostApply ==
    /\ Busy
    /\ state' = merge_state(state, call.response)
    /\ accepted' = [r \in AllRunIds |->
                      IF r \in started_run(call.request, call.response) THEN 0
                      ELSE IF accepted_continuation(call.request, state)
                              /\ result_run_id(call.request) = r
                           THEN accepted[r] + 1
                           ELSE accepted[r]]
    /\ inflight' = <<>>
    /\ UNCHANGED <<host_config, outbox>>

Init ==
    /\ host_config \in Configs
    /\ state = EmptyDict
    /\ inflight = <<>>
    /\ accepted = [r \in AllRunIds |-> 0]
    /\ outbox = <<>>

Next ==
    \/ InvokeStart
    \/ InvokeTrigger
    \/ InvokeToolResult
    \/ InvokeOtherEvent
    \/ InvokePoll
    \/ InvokeHealth
    \/ InvokeOtherCommand
    \/ InvokeMalformed
    \/ HostApply

Spec == Init /\ [][Next]_vars

(***************************************************************************)
(* Concurrent deliveries.  The host hands the same snapshot of the state   *)
(* to up to two invocations before it merges either response, and merges   *)
(* the responses in either order.  Each call in flight is marked once its  *)
(* response is merged; the calls are dropped when all are merged.          *)
(***************************************************************************)
ConcConfigs == {EmptyDict, [allowed_plugins |-> PyList(<<PyStr("jina-reader")>>)]}

ConcUuids == {"u1", "u2"}

ConcEvents ==
    {[type |-> PyStr("agentic.start"), payload |-> p] :
        p \in { PyDict([goal |-> PyStr("summarize https://example.com/a"), run_id |-> PyStr("r1")]),
                PyDict([goal |-> PyStr("summarize https://example.com/a")]) }}
    \cup {[type |-> PyStr("agentic.tool_result"), payload |-> p] :
            p \in { PyDict([run_id |-> PyStr("r1"), tool |-> PyStr("jina-reader"), step |-> PyInt(1),
                            status |-> PyStr("ok"), result |-> PyDict([text |-> PyStr("hello")])]),
                    PyDict([run_id |-> PyStr("r1"), tool |-> PyStr("fabric"), step |-> PyInt(2),
                            status |-> PyStr("ok")]),
                    PyDict([run_id |-> PyStr("r1"), tool |-> PyStr("jina-reader"), step |-> PyInt(1),
                            status |-> PyStr("error")]),
                    PyDict([run_id |-> PyStr("u1"), tool |-> PyStr("jina-reader"), step |-> PyInt(1),
                            status |-> PyStr("ok"), result |-> PyStr("page")]),
                    PyDict([run_id |-> PyStr("u1"), tool |-> PyStr("fabric"), step |-> PyInt(2),
                            status |-> PyStr("ok")]) }}

\* The clock of the first and of the second call in flight.
conc_now == IF inflight = <<>> THEN "t0" ELSE "t1"

unmerged == {i \in 1..Len(inflight) : ~inflight[i].merged}

\* resp created its run under uuid.
uses_uuid(resp, uuid) ==
    /\ "last_run_id" \in DOMAIN state_updates_of(resp)
    /\ resp.state_updates.last_run_id = PyStr(uuid)

\* uuid4() repeats no run_id: not one of a run in the state, not one of
\* another call in flight.
conc_uuid_fresh(resp, uuid) ==
    uses_uuid(resp, uuid) =>
        /\ uuid \notin DOMAIN runs_of(state)
        /\ \A i \in 1..Len(inflight) : ~uses_uuid(inflight[i].response, uuid)

ConcDeliver ==
    /\ Len(inflight) < 2
    /\ unmerged = 1..Len(inflight)
    /\ \E event \in ConcEvents, uuid \in ConcUuids :
        LET request == handle_request(event)
            response == plugin(request, state, conc_now, uuid)
        IN  /\ conc_uuid_fresh(response, uuid)
            /\ inflight' = Append(inflight, [request |-> request, now |-> conc_now,
                                             response |-> response, merged |-> FALSE])
    /\ UNCHANGED <<host_config, state, accepted, outbox>>

ConcMerge ==
    /\ \E i \in unmerged :
        /\ state' = merge_state(state, inflight[i].response)
        /\ inflight' = [inflight EXCEPT ![i].merged = TRUE]
    /\ UNCHANGED <<host_config, accepted, outbox>>

ConcSettle ==
    /\ inflight # <<>>
    /\ unmerged = {}
    /\ inflight' = <<>>
    /\ UNCHANGED <<host_config, state, accepted, outbox>>

ConcInit ==
    /\ host_config \in ConcConfigs
    /\ state = EmptyDict
    /\ inflight = <<>>
    /\ accepted = [r \in AllRunIds |-> 0]
    /\ outbox = <<>>

ConcNext ==
    \/ ConcDeliver
    \/ ConcMerge
    \/ ConcSettle

ConcSpec == ConcInit /\ [][ConcNext]_vars

(***************************************************************************)
(* The closed loop.  The host starts runs, persists every response's state *)
(* updates, keeps every emitted event, and feeds back, for each emitted    *)
(* agentic.tool_request, a tool_result that carries the request's run_id,  *)
(* step and tool.  One invocation is in flight at a time.  A request may   *)
(* be answered late, after later requests, and more than once; a repeated  *)
(* delivery carries the outcome of the first.                              *)
(***************************************************************************)
\* Starts the host issues in one behaviour.
MaxStarts == 2

\* Deliveries of the result of one tool request.
MaxDeliveries == 2

LoopConfigs == {EmptyDict, [max_steps |-> PyInt(2)]}

LoopRunIds == {"r1", "zz"}

LoopStarts ==
    {[type |-> PyStr("agentic.start"),
      payload |-> PyDict([goal |-> PyStr(g), run_id |-> PyStr(r)])] :
        g \in ValidGoals, r \in LoopRunIds}

\* What the tool adapter answers: ok with a result, or a failure.
LoopOutcomes ==
    << [status |-> PyStr("ok"), result |-> PyDict([text |-> PyStr("hello")])],
       [status |-> PyStr("error"), error |-> PyStr("boom")] >>

\* The tool_result that answers the tool request e with outcome o.
result_for(e, o) ==
    [type |-> PyStr("agentic.tool_result"),
     payload |-> PyDict([run_id |-> PyStr(e.payload.run_id), tool |-> PyStr(e.payload.tool),
                         step |-> PyInt(e.payload.step)] @@ o)]

is_tool_request(e) == e.type = "agentic.tool_request"

starts_issued == Cardinality({i \in 1..Len(outbox) :
                                is_tool_request(outbox[i].event) /\ outbox[i].event.payload.step = 1})

LoopStart ==
    /\ Idle
    /\ starts_issued < MaxStarts
    /\ \E event \in LoopStarts :
        LET request == handle_request(event)
        IN  inflight' = <<[request |-> request, now |-> "t0",
                           response |-> plugin(request, state, "t0", "u1"), feeds |-> 0]>>
    /\ UNCHANGED <<host_config, state, accepted, outbox>>

LoopFeed ==
    /\ Idle
    /\ \E i \in 1..Len(outbox) :
        /\ is_tool_request(outbox[i].event)
        /\ outbox[i].fed < MaxDeliveries
        /\ \E o \in 1..Len(LoopOutcomes) :
            /\ outbox[i].fed > 0 => o = outbox[i].outcome
            /\ LET request == handle_request(result_for(outbox[i].event, LoopOutcomes[o]))
               IN  inflight' = <<[request |-> request, now |-> "t0",
                                  response |-> plugin(request, state, "t0", "u1"),
                                  feeds |-> i]>>
            /\ outbox' = [outbox EXCEPT ![i].fed = @ + 1, ![i].outcome = o]
    /\ UNCHANGED <<host_config, state, accepted>>

LoopApply ==
    /\ Busy
    /\ state' = merge_state(state, call.response)
    /\ outbox' = outbox \o [i \in 1..Len(events_of(call.response)) |->
                               [event |-> call.response.events[i], fed |-> 0, outcome |-> 0]]
    /\ inflight' = <<>>
    /\ UNCHANGED <<host_config, accepted>>

LoopInit ==
    /\ host_config \in LoopConfigs
    /\ state = EmptyDict
    /\ inflight = <<>>
    /\ accepted = [r \in AllRunIds |-> 0]
    /\ outbox = <<>>

LoopNext ==
    \/ LoopStart
    \/ LoopFeed
    \/ LoopApply

\* Every outstanding result is eventually delivered and every response is
\* eventually merged.
LoopSpec == LoopInit /\ [][LoopNext]_vars /\ WF_vars(LoopFeed) /\ WF_vars(LoopApply)

(***************************************************************************)
(* The invocation in flight, and the state before and after its merge.     *)
(***************************************************************************)
response_fields(resp) == DOMAIN resp

is_ok(resp) == "status" \in DOMAIN resp /\ resp.status = "ok"

is_error(resp) == "status" \in DOMAIN resp /\ resp.status = "error"

\* Status ok, no events, no state updates.
is_noop(resp) ==
    /\ is_ok(resp)
    /\ Len(resp.events) = 0
    /\ DOMAIN resp.state_updates = {}

post_state == merge_state(state, call.response)

pre_runs == runs_of(state)

post_runs == runs_of(post_state)

req_config(request) ==
    LET cfg == dict_get(req_fields(request), "config", PyDict(EmptyDict))
    IN  IF isinstance_dict(cfg) THEN cfg.d ELSE EmptyDict

start_context(request) ==
    LET context == dict_get(req_payload(request), "context", PyNone)
    IN  IF isinstance_dict(context) THEN context.d ELSE EmptyDict

\* The first tool chosen for a start whose goal is a string.
first_tool(request) ==
    choose_first_tool(req_payload(request).goal.s, start_context(request),
                      req_config(request))[1]

passes_allowed_plugins(tool, cfg) ==
    LET allowed_plugins == config_list(cfg, "allowed_plugins")
    IN  Len(allowed_plugins) = 0 \/ in_list(tool, allowed_plugins)

\* An agentic.start whose payload is an object with a goal that is a
\* non-empty string, and whose first tool passes allowed_plugins.
start_with_nonempty_goal(request) ==
    /\ req_command(request) = PyStr("handle")
    /\ req_type(request) = PyStr("agentic.start")
    /\ isinstance_dict(dict_get(req_event(request), "payload", PyDict(EmptyDict)))
    /\ nonempty_str(dict_get(req_payload(request), "goal", PyNone))
    /\ passes_allowed_plugins(first_tool(request), req_config(request))

\* The same, with a goal that is not blank (non-empty once stripped).
start_with_nonblank_goal(request) ==
    /\ start_with_nonempty_goal(request)
    /\ strip(req_payload(request).goal.s) # ""

\* One agentic.tool_request at step 1, and the run it names is running and
\* waits for that tool at step 1.
first_request_emitted(request, resp, runs) ==
    /\ is_ok(resp)
    /\ Len(resp.events) = 1
    /\ resp.events[1].type = "agentic.tool_request"
    /\ resp.events[1].payload.step = 1
    /\ resp.events[1].payload.tool = first_tool(request)
    /\ resp.events[1].payload.run_id \in DOMAIN runs
    /\ LET run == runs[resp.events[1].payload.run_id]
       IN  /\ run.status = "running"
           /\ run.step = 1
           /\ run.pending_step = PyInt(1)
           /\ run.pending_tool = PyStr(resp.events[1].payload.tool)

(***************************************************************************)
(* Properties                                                              *)
(***************************************************************************)

\* C1 (as stated): every agentic.start whose payload is an object with a
\* non-empty goal and whose first tool passes allowed_plugins is answered ok
\* with exactly one agentic.tool_request at step 1, and the created run is
\* running with pending_step = step = 1 and pending_tool the requested tool.
C1_NonEmptyGoalStarts ==
    Busy /\ start_with_nonempty_goal(call.request)
        => first_request_emitted(call.request, call.response, post_runs)

\* C1, for the starts whose goal is not blank (still non-empty after
\* stripping whitespace): every such start whose first tool passes
\* allowed_plugins is answered ok with exactly one agentic.tool_request at
\* step 1, and the created run is running with pending_step = step = 1 and
\* pending_tool the requested tool.
C1_ValidStartEmitsFirstRequest ==
    Busy /\ start_with_nonblank_goal(call.request)
        => first_request_emitted(call.request, call.response, post_runs)

\* C1 witness: a valid start under a caller-supplied run_id has been answered.
C1_Witness ==
    /\ Busy
    /\ start_with_nonblank_goal(call.request)
    /\ dict_get(req_payload(call.request), "run_id", PyNone) = PyStr("r1")
    /\ "r1" \in DOMAIN post_runs

\* C2: in every reachable persisted state, a run whose status is running has
\* pending_step defined and equal to step, and a non-empty pending_tool.
C2_RunningHasPending ==
    \A rid \in DOMAIN runs_of(state) :
        LET run == runs_of(state)[rid]
        IN  run.status = "running"
                => /\ run.pending_step = PyInt(run.step)
                   /\ nonempty_str(run.pending_tool)

\* C2 witness: a run that advanced is running at step 2.
C2_Witness ==
    \E rid \in DOMAIN runs_of(state) :
        /\ runs_of(state)[rid].status = "running"
        /\ runs_of(state)[rid].step = 2

\* C3: a tool_result never removes a run, and changes no run's step except
\* that an accepted continuation that leaves its run running raises that
\* run's step by exactly 1.
C3_StepMonotone ==
    Busy /\ is_tool_result(call.request)
        => \A rid \in DOMAIN pre_runs :
              /\ rid \in DOMAIN post_runs
              /\ IF /\ accepted_continuation(call.request, state)
                    /\ result_run_id(call.request) = rid
                    /\ post_runs[rid].status = "running"
                 THEN post_runs[rid].step = pre_runs[rid].step + 1
                 ELSE post_runs[rid].step = pre_runs[rid].step

\* C3 witness: a tool_result has raised a run's step.
C3_Witness ==
    /\ Busy
    /\ is_tool_result(call.request)
    /\ \E rid \in DOMAIN pre_runs : post_runs[rid].step = pre_runs[rid].step + 1

\* A well-formed result addressed to a run of st that is done or escalated.
to_terminal_run(request, st) ==
    /\ well_formed_result(request)
    /\ result_run_id(request) \in DOMAIN runs_of(st)
    /\ runs_of(st)[result_run_id(request)].status \in {"done", "escalated"}

\* C4: a well-formed tool_result addressed to a run that is done or escalated
\* is answered ok with no events and no state updates, whatever its step,
\* tool and status: the persisted state does not change.
C4_TerminalAbsorbing ==
    Busy /\ to_terminal_run(call.request, state)
        => /\ is_noop(call.response)
           /\ post_state = state

\* C4 witness: a result on the recorded pending step and pending tool has
\* been delivered to an escalated run.
C4_Witness ==
    /\ Busy
    /\ to_terminal_run(call.request, state)
    /\ LET run == pre_runs[result_run_id(call.request)]
       IN  /\ run.status = "escalated"
           /\ result_step(call.request) = pending_step_of(run)
           /\ PyStr(result_tool(call.request)) = run.pending_tool
           /\ result_status(call.request) = "ok"

\* C5: a run with max_steps = N has had at most N accepted continuations, and
\* fewer than N while it is still running: it is terminal within N of them.
C5_TerminalWithinMaxSteps ==
    \A rid \in DOMAIN runs_of(state) :
        LET run == runs_of(state)[rid]
        IN  /\ accepted[rid] <= run.max_steps
            /\ run.status = "running" => accepted[rid] < run.max_steps

\* C5 witness: a run with max_steps = 2 is terminal after exactly 2 accepted
\* continuations.
C5_Witness ==
    \E rid \in DOMAIN runs_of(state) :
        /\ runs_of(state)[rid].status # "running"
        /\ runs_of(state)[rid].max_steps = 2
        /\ accepted[rid] = 2

\* The response changes the run collection.
causes_transition(resp) == "runs" \in DOMAIN state_updates_of(resp)

\* C6: when a tool_result causes a transition, processing the same event
\* again against the state with its state_updates applied yields status ok
\* with no events and no state updates.
C6_ReplayIsNoop ==
    Busy /\ is_tool_result(call.request) /\ causes_transition(call.response)
        => \A now \in Times, uuid \in UuidPool :
              is_noop(plugin(call.request, post_state, now, uuid))

\* C6 witness: a tool_result has advanced a run, which is still running.
C6_Witness ==
    /\ Busy
    /\ is_tool_result(call.request)
    /\ causes_transition(call.response)
    /\ post_runs[result_run_id(call.request)].status = "running"

\* A result for a running run, on its pending step, from another tool than
\* its pending tool.
wrong_tool_on_step(request, st) ==
    /\ to_running_run(request, st)
    /\ result_step(request) = pending_step_of(runs_of(st)[result_run_id(request)])
    /\ PyStr(result_tool(request)) # runs_of(st)[result_run_id(request)].pending_tool

\* C7: a result on the pending step of a running run whose tool differs from
\* pending_tool escalates the run and leaves its step unchanged; the response
\* is ok with exactly one event, agent.escalated with reason
\* pending_tool_mismatch, expected_tool = pending_tool and actual_tool = the
\* result's tool (so no agentic.tool_request), whatever the result's status.
C7_ToolMismatchEscalates ==
    Busy /\ wrong_tool_on_step(call.request, state)
        => LET rid == result_run_id(call.request)
               resp == call.response
           IN  /\ is_ok(resp)
               /\ Len(resp.events) = 1
               /\ resp.events[1].type = "agent.escalated"
               /\ resp.events[1].payload.run_id = rid
               /\ resp.events[1].payload.reason = "pending_tool_mismatch"
               /\ resp.events[1].payload.expected_tool = pre_runs[rid].pending_tool
               /\ resp.events[1].payload.actual_tool = result_tool(call.request)
               /\ post_runs[rid].status = "escalated"
               /\ post_runs[rid].step = pre_runs[rid].step

\* C7 witness: an ok result of jina-reader has arrived, below max_steps, for
\* a run that waits for another tool.
C7_Witness ==
    /\ Busy
    /\ wrong_tool_on_step(call.request, state)
    /\ result_tool(call.request) = "jina-reader"
    /\ result_status(call.request) = "ok"
    /\ result_step(call.request) < pre_runs[result_run_id(call.request)].max_steps

\* Every result that carries the pending step and the pending tool of run rid
\* of st is an accepted continuation, answered ok with one event.
correct_result_accepted(rid, st) ==
    \A payload \in WellFormedResults, now \in Times, uuid \in UuidPool :
        /\ payload.d.run_id = PyStr(rid)
        /\ payload.d.step = runs_of(st)[rid].pending_step
        /\ payload.d.tool = runs_of(st)[rid].pending_tool
        => LET request == handle_request([type |-> PyStr("agentic.tool_result"),
                                          payload |-> payload])
               resp == plugin(request, st, now, uuid)
           IN  /\ accepted_continuation(request, st)
               /\ is_ok(resp)
               /\ Len(resp.events) = 1

\* C8: a result for a running run whose step is greater than pending_step is
\* answered with status error and retry = false, the persisted state does not
\* change, and a result on the pending step is accepted afterwards.
C8_FutureStepRejected ==
    Busy /\ to_running_run(call.request, state)
         /\ result_step(call.request) > pending_step_of(pre_runs[result_run_id(call.request)])
        => /\ is_error(call.response)
           /\ call.response.retry = FALSE
           /\ post_state = state
           /\ correct_result_accepted(result_run_id(call.request), post_state)

\* C8 witness: a result one step ahead of the pending step has arrived from
\* the pending tool.
C8_Witness ==
    /\ Busy
    /\ to_running_run(call.request, state)
    /\ LET run == pre_runs[result_run_id(call.request)]
       IN  /\ result_step(call.request) = pending_step_of(run) + 1
           /\ PyStr(result_tool(call.request)) = run.pending_tool

\* C9: a result for a running run whose step is less than pending_step is
\* answered ok with no events and no state updates, the persisted state does
\* not change, and delivering it again gives the same, whatever its tool and
\* status.
C9_StaleStepIsNoop ==
    Busy /\ to_running_run(call.request, state)
         /\ result_step(call.request) < pending_step_of(pre_runs[result_run_id(call.request)])
        => /\ is_noop(call.response)
           /\ post_state = state
           /\ \A now \in Times, uuid \in UuidPool :
                 is_noop(plugin(call.request, post_state, now, uuid))

\* C9 witness: a stale result with a failing status has arrived from a tool
\* that is not the pending tool.
C9_Witness ==
    /\ Busy
    /\ to_running_run(call.request, state)
    /\ LET run == pre_runs[result_run_id(call.request)]
       IN  /\ result_step(call.request) < pending_step_of(run)
           /\ PyStr(result_tool(call.request)) # run.pending_tool
           /\ result_status(call.request) # "ok"

\* C10: a well-formed tool_result whose run_id is no key of the run collection
\* is answered ok with no events, no state updates and exactly one log, of
\* level warn; the persisted state does not change.
C10_UnknownRunIgnored ==
    Busy /\ well_formed_result(call.request)
         /\ result_run_id(call.request) \notin DOMAIN pre_runs
        => /\ is_noop(call.response)
           /\ Len(call.response.logs) = 1
           /\ call.response.logs[1].level = "warn"
           /\ post_state = state

\* C10 witness: a result for an unknown run_id has arrived while another run
\* is tracked.
C10_Witness ==
    /\ Busy
    /\ well_formed_result(call.request)
    /\ result_run_id(call.request) \notin DOMAIN pre_runs
    /\ DOMAIN pre_runs # {}

no_events(resp) == "events" \notin DOMAIN resp \/ Len(resp.events) = 0

no_state_updates(resp) == DOMAIN state_updates_of(resp) = {}

\* A start whose payload is an object with a goal that is a non-blank string.
valid_goal(request) ==
    /\ is_start(request)
    /\ isinstance_dict(dict_get(req_event(request), "payload", PyDict(EmptyDict)))
    /\ isinstance_str(dict_get(req_payload(request), "goal", PyNone))
    /\ strip(req_payload(request).goal.s) # ""

\* C11: every request answered with status error carries no events and no
\* state updates, and the run collection after the merge is the run collection
\* before it: no run record is created or modified.
C11_ErrorLeavesRunsUnchanged ==
    Busy /\ is_error(call.response)
        => /\ no_events(call.response)
           /\ no_state_updates(call.response)
           /\ post_runs = pre_runs
           /\ post_state = state

\* C11 witness: a start whose first tool is not allowed has been answered with
\* an error while a run is tracked.
C11_Witness ==
    /\ Busy
    /\ is_error(call.response)
    /\ valid_goal(call.request)
    /\ ~passes_allowed_plugins(first_tool(call.request), req_config(call.request))
    /\ \E rid \in DOMAIN pre_runs : pre_runs[rid].status = "running"

\* The merge of the response in flight turns run rid escalated.
becomes_escalated(rid) ==
    /\ rid \in DOMAIN pre_runs
    /\ pre_runs[rid].status # "escalated"
    /\ rid \in DOMAIN post_runs
    /\ post_runs[rid].status = "escalated"

\* Status ok, exactly one event, agent.escalated for run rid, and state
\* updates whose run collection holds rid as escalated.
escalation_visible(resp, rid) ==
    /\ is_ok(resp)
    /\ Len(resp.events) = 1
    /\ resp.events[1].type = "agent.escalated"
    /\ resp.events[1].payload.run_id = rid
    /\ "runs" \in DOMAIN resp.state_updates
    /\ rid \in DOMAIN resp.state_updates.runs.d
    /\ resp.state_updates.runs.d[rid].status = "escalated"

\* C12: a request turns a run's status to escalated if and only if it is a
\* tool_result whose response has status ok, exactly one event, agent.escalated
\* with that run's run_id, and state updates that hold the run as escalated.
C12_EscalationIsVisible ==
    Busy => \A rid \in AllRunIds :
                becomes_escalated(rid)
                    <=> /\ is_tool_result(call.request)
                        /\ escalation_visible(call.response, rid)

\* C12 witness: a tool_result escalates one run while another run is running.
C12_Witness ==
    /\ Busy
    /\ is_tool_result(call.request)
    /\ \E rid \in AllRunIds, other \in DOMAIN pre_runs :
          /\ becomes_escalated(rid)
          /\ other # rid
          /\ pre_runs[other].status = "running"

\* A start whose payload names, as run_id, the key of a run record of st.
colliding_start(request, st) ==
    /\ is_start(request)
    /\ isinstance_str(dict_get(req_payload(request), "run_id", PyNone))
    /\ req_payload(request).run_id.s \in DOMAIN runs_of(st)

\* C13: a start whose payload run_id is the key of a run record already in the
\* collection does not replace that record's status, goal, step, pending_step
\* or pending_tool.
C13_CollisionKeepsRecord ==
    Busy /\ colliding_start(call.request, state)
        => LET rid == req_payload(call.request).run_id.s
           IN  /\ rid \in DOMAIN post_runs
               /\ post_runs[rid].status = pre_runs[rid].status
               /\ post_runs[rid].goal = pre_runs[rid].goal
               /\ post_runs[rid].step = pre_runs[rid].step
               /\ post_runs[rid].pending_step = pre_runs[rid].pending_step
               /\ post_runs[rid].pending_tool = pre_runs[rid].pending_tool

\* C14: in every reachable persisted state, a run whose status is done or
\* escalated has pending_step cleared.
C14_TerminalClearsPendingStep ==
    \A rid \in DOMAIN runs_of(state) :
        runs_of(state)[rid].status \in {"done", "escalated"}
            => runs_of(state)[rid].pending_step = PyNone

payload_not_object(request) ==
    ~isinstance_dict(dict_get(req_event(request), "payload", PyDict(EmptyDict)))

\* The payload is an object whose goal is missing, not a string, or blank.
bad_goal(request) ==
    /\ ~payload_not_object(request)
    /\ LET goal == dict_get(req_payload(request), "goal", PyNone)
       IN  ~isinstance_str(goal) \/ strip(goal.s) = ""

\* config["allowed_plugins"] as configured, before config_list reads it.
raw_allowed_plugins(cfg) == dict_get(cfg, "allowed_plugins", PyList(<<>>))

\* allowed_plugins, as configured, is a non-empty list with no item equal to tool.
raw_list_lacks(cfg, tool) ==
    /\ isinstance_list(raw_allowed_plugins(cfg))
    /\ Len(raw_allowed_plugins(cfg).items) > 0
    /\ \A i \in 1..Len(raw_allowed_plugins(cfg).items) :
          raw_allowed_plugins(cfg).items[i] # PyStr(tool)

\* allowed_plugins, as configured, is absent or an empty list.
raw_list_empty_or_absent(cfg) ==
    \/ "allowed_plugins" \notin DOMAIN cfg
    \/ /\ isinstance_list(raw_allowed_plugins(cfg))
       /\ Len(raw_allowed_plugins(cfg).items) = 0

\* Status error, retry = false, no tool request, no run record created or changed.
start_rejected(resp, before, after) ==
    /\ is_error(resp)
    /\ resp.retry = FALSE
    /\ no_events(resp)
    /\ runs_of(after) = runs_of(before)

\* C15 (as stated): a start is rejected when the payload is not an object,
\* when goal is missing, not a string or blank, or when allowed_plugins is a
\* non-empty list that does not contain the chosen first tool; when
\* allowed_plugins is empty or absent, a start with a valid goal is not rejected.
C15_ListWithoutToolRejects ==
    Busy /\ is_start(call.request)
        => /\ \/ payload_not_object(call.request)
              \/ bad_goal(call.request)
              \/ /\ valid_goal(call.request)
                 /\ raw_list_lacks(req_config(call.request), first_tool(call.request))
              => start_rejected(call.response, state, post_state)
           /\ valid_goal(call.request) /\ raw_list_empty_or_absent(req_config(call.request))
              => is_ok(call.response)

\* C15, with allowed_plugins read as config_list reads it (without its items
\* that are not strings or are blank, the others stripped of surrounding
\* whitespace): a start is rejected with a non-retryable error when the
\* payload is not an object, when goal is missing, not a string or blank, or
\* when that list is non-empty and does not contain the chosen first tool; it
\* is not rejected when that list is empty or allowed_plugins is absent or not
\* a list.
C15_InvalidStartRejected ==
    Busy /\ is_start(call.request)
        => /\ \/ payload_not_object(call.request)
              \/ bad_goal(call.request)
              \/ /\ valid_goal(call.request)
                 /\ ~passes_allowed_plugins(first_tool(call.request), req_config(call.request))
              => start_rejected(call.response, state, post_state)
           /\ /\ valid_goal(call.request)
              /\ Len(config_list(req_config(call.request), "allowed_plugins")) = 0
              => is_ok(call.response)

\* C15 witness: an api.trigger with a valid goal is rejected for its first
\* tool, fabric, which the list does not name, while a run is tracked.
C15_Witness ==
    /\ Busy
    /\ valid_goal(call.request)
    /\ req_type(call.request) = PyStr("api.trigger")
    /\ first_tool(call.request) = "fabric"
    /\ ~passes_allowed_plugins("fabric", req_config(call.request))
    /\ start_rejected(call.response, state, post_state)
    /\ DOMAIN pre_runs # {}

\* An accepted continuation with status ok from the fetch tool, below the
\* run's max_steps.
on_fetch_ok(request, st) ==
    /\ accepted_continuation(request, st)
    /\ result_tool(request) = "jina-reader"
    /\ result_status(request) = "ok"
    /\ result_step(request) < runs_of(st)[result_run_id(request)].max_steps

\* The run is escalated for the follow-up tool: one agent.escalated event of
\* reason followup_tool_not_allowed, step and pending fields as before.
followup_refused(resp, rid, before, after) ==
    /\ is_ok(resp)
    /\ Len(resp.events) = 1
    /\ resp.events[1].type = "agent.escalated"
    /\ resp.events[1].payload.run_id = rid
    /\ resp.events[1].payload.reason = "followup_tool_not_allowed"
    /\ resp.events[1].payload.tool = "fabric"
    /\ after[rid].status = "escalated"
    /\ after[rid].step = before[rid].step
    /\ after[rid].pending_tool = before[rid].pending_tool

\* C16 (as stated): an on-step, on-tool, status ok result of jina-reader with
\* step < max_steps, when allowed_plugins is a non-empty list that does not
\* contain fabric, escalates the run with exactly one agent.escalated event of
\* reason followup_tool_not_allowed, leaves step and pending_tool as they
\* were, and emits no agentic.tool_request.
C16_ListWithoutFabricEscalates ==
    Busy /\ on_fetch_ok(call.request, state)
         /\ raw_list_lacks(req_config(call.request), "fabric")
        => followup_refused(call.response, result_run_id(call.request), pre_runs, post_runs)

\* C16 (amended): the same, when allowed_plugins, read as the list of its
\* string items that are not blank, each stripped of surrounding whitespace,
\* is non-empty and does not contain fabric.
C16_FollowupNotAllowedEscalates ==
    Busy /\ on_fetch_ok(call.request, state)
         /\ ~passes_allowed_plugins("fabric", req_config(call.request))
        => followup_refused(call.response, result_run_id(call.request), pre_runs, post_runs)

\* C16 witness: the fetch tool has answered with text at step 1 of a run with
\* max_steps = 3, under a configuration that allows jina-reader only.
C16_Witness ==
    /\ Busy
    /\ on_fetch_ok(call.request, state)
    /\ ~passes_allowed_plugins("fabric", req_config(call.request))
    /\ "result" \in DOMAIN req_payload(call.request)
    /\ pre_runs[result_run_id(call.request)].max_steps = 3
    /\ post_runs[result_run_id(call.request)].status = "escalated"

\* What the escalation event carries as error: the supplied error, or the
\* placeholder when the result has none.
reported_error(request) ==
    py_or(dict_get(req_payload(request), "error", PyNone), PyStr("unknown tool error"))

\* C17: a result on the pending step and from the pending tool of a running
\* run whose status is a string other than "ok" escalates the run, at any
\* step, also when step >= max_steps: the response is ok with exactly one
\* event, agent.escalated with reason tool_error, the result's step and tool,
\* and the supplied error or the placeholder.
C17_ToolErrorEscalates ==
    Busy /\ accepted_continuation(call.request, state)
         /\ result_status(call.request) # "ok"
        => LET rid == result_run_id(call.request)
               resp == call.response
           IN  /\ is_ok(resp)
               /\ Len(resp.events) = 1
               /\ resp.events[1].type = "agent.escalated"
               /\ resp.events[1].payload.run_id = rid
               /\ resp.events[1].payload.reason = "tool_error"
               /\ resp.events[1].payload.step = result_step(call.request)
               /\ resp.events[1].payload.tool = result_tool(call.request)
               /\ resp.events[1].payload.error = reported_error(call.request)
               /\ post_runs[rid].status = "escalated"

\* C17 witness: a result with status failed and an error text has arrived on
\* the pending step of a run whose max_steps that step has reached.
C17_Witness ==
    /\ Busy
    /\ accepted_continuation(call.request, state)
    /\ result_status(call.request) = "failed"
    /\ reported_error(call.request) = PyStr("boom")
    /\ result_step(call.request) >= pre_runs[result_run_id(call.request)].max_steps

\* An accepted continuation with status ok whose step has reached max_steps.
on_last_step_ok(request, st) ==
    /\ accepted_continuation(request, st)
    /\ result_status(request) = "ok"
    /\ result_step(request) >= runs_of(st)[result_run_id(request)].max_steps

\* C18: a result on the pending step and from the pending tool of a running
\* run, with status ok and step >= max_steps, escalates the run, whichever
\* tool it is from: the response is ok with exactly one event, agent.escalated
\* with reason max_steps_exceeded, the step and the run's max_steps; so neither
\* a follow-up request nor agent.completed is emitted.
C18_MaxStepsEscalates ==
    Busy /\ on_last_step_ok(call.request, state)
        => LET rid == result_run_id(call.request)
               resp == call.response
           IN  /\ is_ok(resp)
               /\ Len(resp.events) = 1
               /\ resp.events[1].type = "agent.escalated"
               /\ resp.events[1].payload.run_id = rid
               /\ resp.events[1].payload.reason = "max_steps_exceeded"
               /\ resp.events[1].payload.step = result_step(call.request)
               /\ resp.events[1].payload.max_steps = pre_runs[rid].max_steps
               /\ post_runs[rid].status = "escalated"
               /\ post_runs[rid].step = pre_runs[rid].step

\* C18 witness: the fetch tool has answered ok with text on step 1 of a run
\* whose max_steps is 1.
C18_Witness ==
    /\ Busy
    /\ on_last_step_ok(call.request, state)
    /\ result_tool(call.request) = "jina-reader"
    /\ "result" \in DOMAIN req_payload(call.request)
    /\ pre_runs[result_run_id(call.request)].max_steps = 1

\* The text a fetch result carries: field text, else field excerpt, when the
\* result is an object; the result itself when it is a string.
result_text(request) ==
    LET result == dict_get(req_payload(request), "result", PyNone)
    IN  IF isinstance_dict(result)
        THEN IF nonempty_str(dict_get(result.d, "text", PyNone)) THEN result.d.text.s
             ELSE IF nonempty_str(dict_get(result.d, "excerpt", PyNone)) THEN result.d.excerpt.s
             ELSE ""
        ELSE IF isinstance_str(result) THEN result.s ELSE ""

\* C19: a result on the pending step k and from the pending tool, jina-reader,
\* with status ok and k < max_steps, when fabric passes allowed_plugins, keeps
\* the run running with step = pending_step = k + 1 and pending_tool = fabric;
\* the response is ok with exactly one event, an agentic.tool_request for
\* fabric at step k + 1 whose tool_payload holds the critique prompt and, when
\* and only when the result carries a non-empty text, that text under key text.
C19_FetchResultAdvances ==
    Busy /\ on_fetch_ok(call.request, state)
         /\ passes_allowed_plugins("fabric", req_config(call.request))
        => LET rid == result_run_id(call.request)
               k == result_step(call.request)
               resp == call.response
           IN  /\ is_ok(resp)
               /\ Len(resp.events) = 1
               /\ resp.events[1].type = "agentic.tool_request"
               /\ resp.events[1].payload.run_id = rid
               /\ resp.events[1].payload.step = k + 1
               /\ resp.events[1].payload.tool = "fabric"
               /\ resp.events[1].payload.tool_payload.prompt =
                     PyStr("Write a constructive two-paragraph critique of the supplied webpage content.")
               /\ IF result_text(call.request) # ""
                  THEN resp.events[1].payload.tool_payload.text = PyStr(result_text(call.request))
                  ELSE "text" \notin DOMAIN resp.events[1].payload.tool_payload
               /\ post_runs[rid].status = "running"
               /\ post_runs[rid].step = k + 1
               /\ post_runs[rid].pending_step = PyInt(k + 1)
               /\ post_runs[rid].pending_tool = PyStr("fabric")

\* C19 witness: a fetch result with an empty text and an excerpt has arrived on
\* step 1 under a configuration whose allowed_plugins names fabric.
C19_Witness ==
    /\ Busy
    /\ on_fetch_ok(call.request, state)
    /\ Len(config_list(req_config(call.request), "allowed_plugins")) > 0
    /\ passes_allowed_plugins("fabric", req_config(call.request))
    /\ dict_get(req_payload(call.request), "result", PyNone)
          = PyDict([text |-> PyStr(""), excerpt |-> PyStr("short")])
    /\ post_runs[result_run_id(call.request)].step = 2

\* An accepted continuation with status ok, below max_steps, from a tool other
\* than the fetch tool.
on_final_ok(request, st) ==
    /\ accepted_continuation(request, st)
    /\ result_tool(request) # "jina-reader"
    /\ result_status(request) = "ok"
    /\ result_step(request) < runs_of(st)[result_run_id(request)].max_steps

\* The outcome a result carries: field result, else field summary, when the
\* result is an object; the result itself when it is a string.
result_outcome(request) ==
    LET result == dict_get(req_payload(request), "result", PyNone)
    IN  IF isinstance_dict(result)
        THEN IF nonempty_str(dict_get(result.d, "result", PyNone)) THEN result.d.result.s
             ELSE IF nonempty_str(dict_get(result.d, "summary", PyNone)) THEN result.d.summary.s
             ELSE ""
        ELSE IF isinstance_str(result) THEN result.s ELSE ""

\* The artifacts a result carries: artifact_path, else output_path.
result_artifacts(request) ==
    LET result == dict_get(req_payload(request), "result", PyNone)
    IN  IF isinstance_dict(result)
        THEN IF nonempty_str(dict_get(result.d, "artifact_path", PyNone))
             THEN <<result.d.artifact_path.s>>
             ELSE IF nonempty_str(dict_get(result.d, "output_path", PyNone))
             THEN <<result.d.output_path.s>>
             ELSE <<>>
        ELSE <<>>

\* C20: a result on the pending step k and from the pending tool, which is not
\* jina-reader, with status ok and k < max_steps, finishes the run: status
\* done, pending_step and pending_tool cleared; the response is ok with exactly
\* one event, agent.completed with the run's goal, steps_taken = k, the
\* outcome the result carries (a fixed sentence when it carries none) and the
\* artifacts list of its artifact_path or output_path.
C20_FinalResultCompletes ==
    Busy /\ on_final_ok(call.request, state)
        => LET rid == result_run_id(call.request)
               k == result_step(call.request)
               resp == call.response
           IN  /\ is_ok(resp)
               /\ Len(resp.events) = 1
               /\ resp.events[1].type = "agent.completed"
               /\ resp.events[1].payload.run_id = rid
               /\ resp.events[1].payload.goal = pre_runs[rid].goal
               /\ resp.events[1].payload.steps_taken = k
               /\ resp.events[1].payload.outcome =
                     IF result_outcome(call.request) # "" THEN result_outcome(call.request)
                     ELSE "Run " \o rid \o " completed at step " \o ToString(k)
               /\ resp.events[1].payload.artifacts = result_artifacts(call.request)
               /\ post_runs[rid].status = "done"
               /\ post_runs[rid].pending_step = PyNone
               /\ post_runs[rid].pending_tool = PyNone

\* C20 witness: fabric has answered on step 2 with a summary and an
\* output_path, and the run is done.
C20_Witness ==
    /\ Busy
    /\ on_final_ok(call.request, state)
    /\ result_step(call.request) = 2
    /\ result_outcome(call.request) = "sum"
    /\ result_artifacts(call.request) = <<"/out/b.md">>
    /\ post_runs[result_run_id(call.request)].status = "done"

is_poll_or_health(request) == req_command(request) \in {PyStr("poll"), PyStr("health")}

BookkeepingFields == {"last_poll", "last_health_check", "configured_max_steps"}

(***************************************************************************)
(* C24: poll and health never mutate run records: in every state their     *)
(* response has status ok, carries no events, and its state_updates hold   *)
(* only bookkeeping fields and no runs entry, so the run collection after  *)
(* the merge is the one before it.                                         *)
(***************************************************************************)
C24_PollHealthKeepRuns ==
    (Busy /\ is_poll_or_health(call.request)) =>
        /\ is_ok(call.response)
        /\ Len(call.response.events) = 0
        /\ "runs" \notin DOMAIN call.response.state_updates
        /\ DOMAIN call.response.state_updates \subseteq BookkeepingFields
        /\ post_runs = pre_runs

\* A poll while the collection holds a running run and a terminal one.
C24_Witness ==
    /\ Busy
    /\ req_command(call.request) = PyStr("poll")
    /\ \E r \in DOMAIN pre_runs : pre_runs[r].status = "running"
    /\ \E r \in DOMAIN pre_runs : pre_runs[r].status \in {"done", "escalated"}
    /\ is_ok(call.response)

is_request_object(request) == request.raw = "json" /\ isinstance_dict(request.value)

SupportedTypes == {PyStr("agentic.start"), PyStr("api.trigger"), PyStr("agentic.tool_result")}

unsupported_event(request) ==
    /\ is_request_object(request)
    /\ req_command(request) = PyStr("handle")
    /\ req_type(request) \notin SupportedTypes

unknown_command(request) ==
    /\ is_request_object(request)
    /\ req_command(request) \notin {PyStr("poll"), PyStr("handle"), PyStr("health")}

\* request with its event's type replaced by type.
with_type(request, type) ==
    [request EXCEPT !.value =
        PyDict(dict_set(request.value.d, "event",
                        PyDict(dict_set(req_event(request), "type", type))))]

(***************************************************************************)
(* C25: an unsupported event type under handle, and an unknown command,    *)
(* give an error response with retry false and leave the state as it was;  *)
(* agentic.start and api.trigger are one operation: the same payload,      *)
(* state and config give the same response under either type.              *)
(***************************************************************************)
C25_UnsupportedRejectedStartTypesAgree ==
    /\ (Busy /\ (unsupported_event(call.request) \/ unknown_command(call.request))) =>
            /\ is_error(call.response)
            /\ call.response.retry = FALSE
            /\ post_state = state
    /\ (Busy /\ is_start(call.request)) =>
            \A type \in {PyStr("agentic.start"), PyStr("api.trigger")} :
                \E uuid \in UuidPool :
                    plugin(with_type(call.request, type), state, call.now, uuid) = call.response

\* An api.trigger that started a run while another run was in the collection.
C25_Witness ==
    /\ Busy
    /\ req_type(call.request) = PyStr("api.trigger")
    /\ is_ok(call.response)
    /\ Len(call.response.events) = 1
    /\ DOMAIN pre_runs # {}

is_envelope(resp) == "status" \in DOMAIN resp

(***************************************************************************)
(* C27: every response envelope, ok or error, contains events,             *)
(* state_updates and logs; an error response contains error and retry as   *)
(* well.                                                                   *)
(***************************************************************************)
C27_EnvelopeAlwaysComplete ==
    (Busy /\ is_envelope(call.response)) =>
        /\ {"events", "state_updates", "logs"} \subseteq DOMAIN call.response
        /\ is_error(call.response) => {"error", "retry"} \subseteq DOMAIN call.response

\* C27 as amended: an ok response contains events, state_updates and logs;
\* an error response contains error, retry and logs, and neither events nor
\* state_updates.
C27_EnvelopeByStatus ==
    (Busy /\ is_envelope(call.response)) =>
        /\ is_ok(call.response) \/ is_error(call.response)
        /\ is_ok(call.response) =>
                DOMAIN call.response = {"status", "events", "state_updates", "logs"}
        /\ is_error(call.response) =>
                /\ DOMAIN call.response = {"status", "error", "retry", "logs"}
                /\ Len(call.response.logs) >= 1

\* An error response to a result that is ahead of a running run.
C27_Witness ==
    /\ Busy
    /\ to_running_run(call.request, state)
    /\ is_error(call.response)

(***************************************************************************)
(* C28: every error response carries retry = false: whatever the request   *)
(* and the state, a response with status error has retry false.            *)
(***************************************************************************)
C28_ErrorsNeverRetryable ==
    (Busy /\ is_error(call.response)) => call.response.retry = FALSE

\* The error response to a request that is not JSON.
C28_Witness ==
    /\ Busy
    /\ call.request.raw = "invalid_json"
    /\ is_error(call.response)

\* step is coercible to a positive integer.
valid_step(v) ==
    \/ v.t = "int" /\ v.n >= 1
    \/ v.t = "str" /\ v.s \in DOMAIN IntLiteral /\ IntLiteral[v.s] >= 1

\* The error for the first invalid field of the payload, "" when all four
\* fields are valid.
first_invalid_field(request) ==
    LET p == req_payload(request)
    IN  IF ~nonempty_str(dict_get(p, "run_id", PyNone))
        THEN "agentic.tool_result missing payload.run_id"
        ELSE IF ~nonempty_str(dict_get(p, "tool", PyNone))
        THEN "agentic.tool_result missing payload.tool"
        ELSE IF ~valid_step(dict_get(p, "step", PyNone))
        THEN "agentic.tool_result missing or invalid payload.step"
        ELSE IF ~nonempty_str(dict_get(p, "status", PyNone))
        THEN "agentic.tool_result missing payload.status"
        ELSE ""

result_with_invalid_field(request) ==
    /\ is_tool_result(request)
    /\ isinstance_dict(dict_get(req_event(request), "payload", PyDict(EmptyDict)))
    /\ first_invalid_field(request) # ""

(***************************************************************************)
(* C26: the fields of a tool_result payload are validated in the order     *)
(* run_id, tool, step, status, and the first failure wins: the error names *)
(* the first invalid field.  Validation comes before the run lookup, so a  *)
(* result with an invalid field is a non-retryable error also when its     *)
(* run_id is unknown or its run is terminal.                               *)
(***************************************************************************)
C26_FirstInvalidFieldWins ==
    (Busy /\ result_with_invalid_field(call.request)) =>
        /\ is_error(call.response)
        /\ call.response.retry = FALSE
        /\ call.response.error = first_invalid_field(call.request)
        /\ post_state = state

nonblank_str(v) == isinstance_str(v) /\ strip(v.s) # ""

\* The tool the four tiers name for the start request.
tool_by_precedence(request) ==
    LET context == start_context(request)
        cfg == req_config(request)
        by_tool == dict_get(context, "tool", PyNone)
        by_initial_tool == dict_get(context, "initial_tool", PyNone)
        by_default_tool == dict_get(cfg, "default_tool", PyNone)
    IN  IF nonblank_str(by_tool) THEN by_tool.s
        ELSE IF nonblank_str(by_initial_tool) THEN by_initial_tool.s
        ELSE IF nonblank_str(by_default_tool) THEN by_default_tool.s
        ELSE IF truthy(extract_first_url(req_payload(request).goal.s)) THEN "jina-reader"
        ELSE "fabric"

caller_tool_payload(request) ==
    LET tool_payload == dict_get(start_context(request), "tool_payload", PyNone)
    IN  IF isinstance_dict(tool_payload) THEN tool_payload.d ELSE EmptyDict

(***************************************************************************)
(* C30: the first tool is context.tool, else context.initial_tool, else    *)
(* config.default_tool, else the heuristic (jina-reader when the goal      *)
(* holds an http(s) URL, fabric otherwise): a non-blank string at a higher *)
(* tier wins, an absent or blank value falls through to the next tier.     *)
(* When the tool is jina-reader and the caller gave no url in tool_payload *)
(* the goal's first URL is injected under url; a caller's url is kept.     *)
(***************************************************************************)
C30_FirstToolPrecedence ==
    (Busy /\ valid_goal(call.request) /\ is_ok(call.response)) =>
        LET requested == call.response.events[1].payload
            url == extract_first_url(req_payload(call.request).goal.s)
            supplied == caller_tool_payload(call.request)
        IN  /\ requested.tool = tool_by_precedence(call.request)
            /\ "url" \in DOMAIN supplied =>
                    /\ "url" \in DOMAIN requested.tool_payload
                    /\ requested.tool_payload.url = supplied.url
            /\ (requested.tool = "jina-reader" /\ "url" \notin DOMAIN supplied /\ truthy(url)) =>
                    /\ "url" \in DOMAIN requested.tool_payload
                    /\ requested.tool_payload.url = url

malformed_top_level(request) ==
    request.raw = "invalid_json" \/ ~isinstance_dict(request.value)

has_non_object_field(request) ==
    /\ is_request_object(request)
    /\ \E k \in {"config", "event"} :
            k \in DOMAIN request.value.d /\ ~isinstance_dict(request.value.d[k])

\* request with its non-object config and event replaced by empty mappings.
with_empty_mappings(request) ==
    [request EXCEPT !.value =
        PyDict([k \in DOMAIN request.value.d |->
                    IF k \in {"config", "event"} /\ ~isinstance_dict(request.value.d[k])
                    THEN PyDict(EmptyDict) ELSE request.value.d[k]])]

(***************************************************************************)
(* C29: a malformed top-level request (text that is not JSON, or JSON that *)
(* is not an object) is answered with a well-formed error response, never  *)
(* with a crash; a config or event field that is not an object is replaced *)
(* by an empty mapping and the request is processed.                       *)
(***************************************************************************)
C29_MalformedRequestAnswered ==
    /\ (Busy /\ malformed_top_level(call.request)) =>
            /\ is_error(call.response)
            /\ DOMAIN call.response = {"status", "error", "retry", "logs"}
    /\ (Busy /\ has_non_object_field(call.request)) =>
            /\ is_envelope(call.response)
            /\ \E uuid \in UuidPool :
                    call.response = plugin(with_empty_mappings(call.request), state, call.now, uuid)

(***************************************************************************)
(* Two deliveries against one snapshot                                     *)
(***************************************************************************)
in_flight_pair == Len(inflight) = 2

all_merged == inflight # <<>> /\ unmerged = {}

\* resp changes the run collection.
writes_runs(resp) == "runs" \in DOMAIN state_updates_of(resp)

\* The run_id the call is about: the run a start created, the run a result
\* is addressed to.
call_run(c) ==
    IF is_start(c.request) THEN c.response.state_updates.last_run_id.s
    ELSE result_run_id(c.request)

tool_requests(resp) ==
    {events_of(resp)[i] : i \in {j \in 1..Len(events_of(resp)) :
                                    events_of(resp)[j].type = "agentic.tool_request"}}

(***************************************************************************)
(* C21: two invocations for two different run_ids, run against the same    *)
(* snapshot and merged in either order, leave both runs' transitions in    *)
(* the persisted run collection: neither update is lost.                   *)
(***************************************************************************)
C21_NoLostUpdate ==
    ( /\ in_flight_pair
      /\ all_merged
      /\ writes_runs(inflight[1].response)
      /\ writes_runs(inflight[2].response)
      /\ call_run(inflight[1]) # call_run(inflight[2]) ) =>
        \A i \in 1..2 :
            LET rid == call_run(inflight[i])
            IN  /\ rid \in DOMAIN runs_of(state)
                /\ runs_of(state)[rid] = inflight[i].response.state_updates.runs.d[rid]

same_delivery == in_flight_pair /\ inflight[1].request = inflight[2].request

request_identity(e) ==
    [dedupe_key |-> e.dedupe_key, run_id |-> e.payload.run_id, step |-> e.payload.step,
     tool |-> e.payload.tool]

(***************************************************************************)
(* C22: the dedupe key of a tool request is determined by its run_id and   *)
(* step alone: two tool requests have the same key exactly when they have  *)
(* the same run_id and step.  When one tool_result is delivered twice      *)
(* against the same snapshot, both responses emit a tool request with the  *)
(* same dedupe key, run_id, step and tool.                                 *)
(***************************************************************************)
C22_DedupeKeyByRunAndStep ==
    /\ in_flight_pair =>
            \A e1 \in tool_requests(inflight[1].response),
               e2 \in tool_requests(inflight[2].response) :
                (e1.dedupe_key = e2.dedupe_key) <=>
                    (e1.payload.run_id = e2.payload.run_id /\ e1.payload.step = e2.payload.step)
    /\ (same_delivery /\ is_tool_result(inflight[1].request)) =>
            {request_identity(e) : e \in tool_requests(inflight[1].response)}
                = {request_identity(e) : e \in tool_requests(inflight[2].response)}

\* A fetch result delivered twice, at different times, each answered with
\* the request for the next step.
C22_Witness ==
    /\ same_delivery
    /\ is_tool_result(inflight[1].request)
    /\ tool_requests(inflight[1].response) # {}
    /\ tool_requests(inflight[2].response) # {}
    /\ inflight[1].now # inflight[2].now

Timestamps == {"created_at", "updated_at", "pending_since", "completed_at"}

without_timestamps(run) == [k \in DOMAIN run \ Timestamps |-> run[k]]

event_identity(e) ==
    [type |-> e.type,
     run_id |-> dict_get(e.payload, "run_id", ""),
     step |-> dict_get(e.payload, "step", 0),
     tool |-> dict_get(e.payload, "tool", "")]

\* Status, events and run records of a response.
output_of(resp) ==
    [status |-> resp.status,
     events |-> [i \in 1..Len(events_of(resp)) |-> event_identity(events_of(resp)[i])],
     runs |-> IF writes_runs(resp)
              THEN [r \in DOMAIN resp.state_updates.runs.d |->
                        without_timestamps(resp.state_updates.runs.d[r])]
              ELSE EmptyDict,
     writes |-> writes_runs(resp)]

handle_event(request) == is_start(request) \/ is_tool_result(request)

(***************************************************************************)
(* C23: re-delivery of the same event against the same snapshot and        *)
(* configuration yields the same output: the two responses have the same   *)
(* status, the same events (type, run_id, step, tool) and the same run     *)
(* records in state_updates, timestamps aside.                             *)
(***************************************************************************)
C23_RedeliverySameOutput ==
    (same_delivery /\ handle_event(inflight[1].request)) =>
        output_of(inflight[1].response) = output_of(inflight[2].response)

\* The start names its run: payload.run_id is a non-blank string.
names_run_id(request) ==
    nonblank_str(dict_get(req_payload(request), "run_id", PyNone))

\* C23 as amended: the same, for every tool_result and every start whose
\* payload carries a non-blank run_id.
C23_RedeliverySameOutputForNamedRuns ==
    ( /\ same_delivery
      /\ handle_event(inflight[1].request)
      /\ is_start(inflight[1].request) => names_run_id(inflight[1].request) ) =>
        output_of(inflight[1].response) = output_of(inflight[2].response)

\* A start under the caller's run_id delivered twice, at different times,
\* while another run is in the collection.
C23_Witness ==
    /\ same_delivery
    /\ is_start(inflight[1].request)
    /\ names_run_id(inflight[1].request)
    /\ is_ok(inflight[1].response)
    /\ inflight[1].now # inflight[2].now
    /\ DOMAIN runs_of(state) \ {call_run(inflight[1])} # {}

\* v is an integer, or a decimal literal, above zero.
positive_integer(v) ==
    \/ v.t = "int" /\ v.n >= 1
    \/ v.t = "str" /\ v.s \in DOMAIN IntLiteral /\ IntLiteral[v.s] >= 1

integer_value(v) == IF v.t = "int" THEN v.n ELSE IntLiteral[v.s]

max_steps_by_tiers(request) ==
    LET by_context == dict_get(start_context(request), "max_steps", PyNone)
        by_config == dict_get(req_config(request), "max_steps", PyNone)
    IN  IF positive_integer(by_context) THEN integer_value(by_context)
        ELSE IF positive_integer(by_config) THEN integer_value(by_config)
        ELSE 20

created_run(resp) == resp.state_updates.runs.d[resp.state_updates.last_run_id.s]

(***************************************************************************)
(* C31: a created run's max_steps is the event context's max_steps when    *)
(* that is coercible to a positive integer, otherwise the configuration's  *)
(* max_steps when that is coercible to a positive integer, otherwise 20:   *)
(* max_steps of a created run is always a positive integer.                *)
(***************************************************************************)
C31_MaxStepsByTiers ==
    (Busy /\ is_start(call.request) /\ is_ok(call.response)) =>
        /\ created_run(call.response).max_steps = max_steps_by_tiers(call.request)
        /\ created_run(call.response).max_steps \in Nat \ {0}

\* A start whose context gives max_steps 0 under a configuration that gives
\* " 2 ": the run is created with max_steps 2.
C31_Witness ==
    /\ Busy
    /\ is_start(call.request)
    /\ is_ok(call.response)
    /\ dict_get(start_context(call.request), "max_steps", PyNone) = PyInt(0)
    /\ dict_get(req_config(call.request), "max_steps", PyNone) = PyStr(" 2 ")
    /\ created_run(call.response).max_steps = 2

\* No response is merged yet: state is the snapshot every call in flight read.
on_snapshot == unmerged = 1..Len(inflight)

CreationFields == {"goal", "max_steps", "max_reframes", "reframes", "created_at"}

creation_fields(run) == [k \in CreationFields |-> run[k]]

completions(resp) ==
    {events_of(resp)[i] : i \in {j \in 1..Len(events_of(resp)) :
                                    events_of(resp)[j].type = "agent.completed"}}

(***************************************************************************)
(* C32: a run's goal is immutable after creation.  The start stores the    *)
(* goal it is given; no agentic.tool_result (advance, completion,          *)
(* escalation, stale, rejected) changes the goal, max_steps, max_reframes, *)
(* reframes or created_at of any run record; the goal carried by           *)
(* agent.completed is the goal of the run's record.                        *)
(***************************************************************************)
C32_CreationFieldsImmutable ==
    \A i \in 1..Len(inflight) :
        LET c == inflight[i]
            before == runs_of(state)
            after == runs_of(merge_state(state, c.response))
        IN  /\ (on_snapshot /\ is_tool_result(c.request)) =>
                    /\ \A r \in DOMAIN before :
                            /\ r \in DOMAIN after
                            /\ creation_fields(after[r]) = creation_fields(before[r])
                    /\ \A e \in completions(c.response) :
                            /\ e.payload.run_id \in DOMAIN before
                            /\ e.payload.goal = before[e.payload.run_id].goal
            /\ (on_snapshot /\ is_start(c.request) /\ is_ok(c.response)) =>
                    created_run(c.response).goal = req_payload(c.request).goal.s

\* A completion at a later time than the run's creation.
C32_Witness ==
    /\ in_flight_pair
    /\ on_snapshot
    /\ is_tool_result(inflight[2].request)
    /\ completions(inflight[2].response) # {}
    /\ inflight[2].now = "t1"
    /\ \E r \in DOMAIN runs_of(state) :
            /\ r = result_run_id(inflight[2].request)
            /\ runs_of(state)[r].created_at = "t0"
            /\ runs_of(state)[r].goal = "summarize https://example.com/a"

\* The run records the host holds, as stored.
persisted_runs(st) == IF "runs" \in DOMAIN st THEN st.runs.d ELSE EmptyDict

(***************************************************************************)
(* C33: run isolation and retention.  A handle invocation that touches run *)
(* A (a start under a fresh run_id, or a tool_result addressed to A)       *)
(* returns in state_updates the full runs mapping, in which every other    *)
(* run record of the input state is present and unchanged; no run record   *)
(* is ever deleted, terminal or not.                                       *)
(***************************************************************************)
C33_OtherRunsKept ==
    /\ (Busy /\ handle_event(call.request) /\ writes_runs(call.response)) =>
            LET before == persisted_runs(state)
                returned == call.response.state_updates.runs.d
            IN  /\ DOMAIN before \subseteq DOMAIN returned
                /\ \A r \in DOMAIN before \ {call_run(call)} : returned[r] = before[r]
    /\ Busy => DOMAIN persisted_runs(state) \subseteq DOMAIN persisted_runs(post_state)

\* A result that completes one run while the collection holds another run,
\* which is terminal.
C33_Witness ==
    /\ Busy
    /\ is_tool_result(call.request)
    /\ writes_runs(call.response)
    /\ completions(call.response) # {}
    /\ \E r \in DOMAIN persisted_runs(state) \ {call_run(call)} :
            /\ persisted_runs(state)[r].status \in {"done", "escalated"}
            /\ call.response.state_updates.runs.d[r] = persisted_runs(state)[r]

(***************************************************************************)
(* C37: every agent.completed has steps_taken strictly below the run's     *)
(* max_steps: an ok result of the pending tool at step = max_steps         *)
(* escalates with max_steps_exceeded and does not complete.  So a run with *)
(* max_steps = 1 never reaches done, and a run that is done at step 2      *)
(* (jina-reader, then fabric) has max_steps >= 3.                          *)
(***************************************************************************)
C37_CompletionBelowMaxSteps ==
    /\ Busy =>
            \A e \in completions(call.response) :
                /\ e.payload.run_id \in DOMAIN pre_runs
                /\ e.payload.steps_taken < pre_runs[e.payload.run_id].max_steps
    /\ ( /\ Busy
         /\ accepted_continuation(call.request, state)
         /\ result_status(call.request) = "ok"
         /\ result_step(call.request) = pre_runs[result_run_id(call.request)].max_steps ) =>
            /\ completions(call.response) = {}
            /\ Len(events_of(call.response)) = 1
            /\ call.response.events[1].type = "agent.escalated"
            /\ call.response.events[1].payload.reason = "max_steps_exceeded"
    /\ \A rid \in DOMAIN runs_of(state) :
            LET run == runs_of(state)[rid]
            IN  run.status = "done" =>
                    /\ run.max_steps # 1
                    /\ run.step < run.max_steps
                    /\ run.step = 2 => run.max_steps >= 3

\* A run with max_steps 3 is done at step 2.
C37_Witness ==
    \E rid \in DOMAIN runs_of(state) :
        /\ runs_of(state)[rid].status = "done"
        /\ runs_of(state)[rid].step = 2
        /\ runs_of(state)[rid].max_steps = 3

(***************************************************************************)
(* C38: a run created by run_start takes the running-to-running edge at    *)
(* most once, whatever its max_steps: step and pending_step never exceed   *)
(* 2, an advance leaves step 1 for step 2 with fabric pending, and the run *)
(* is terminal once it has had 2 accepted continuations.                   *)
(***************************************************************************)
C38_AtMostOneAdvance ==
    /\ \A rid \in DOMAIN persisted_runs(state) :
            LET run == persisted_runs(state)[rid]
            IN  /\ run.step \in 1..2
                /\ run.pending_step \in {PyNone, PyInt(1), PyInt(2)}
                /\ run.status = "running" /\ run.step = 2
                        => run.pending_tool = PyStr("fabric")
                /\ accepted[rid] <= 2
                /\ accepted[rid] = 2 => run.status \in {"done", "escalated"}
    /\ Busy /\ is_tool_result(call.request) =>
            \A rid \in DOMAIN persisted_runs(state) :
                LET before == persisted_runs(state)[rid]
                    after == persisted_runs(post_state)[rid]
                IN  after.status = "running" /\ after # before
                        => /\ before.step = 1
                           /\ after.step = 2
                           /\ after.pending_step = PyInt(2)
                           /\ after.pending_tool = PyStr("fabric")

\* A run whose max_steps is the default 20 is terminal after its second
\* accepted continuation.
C38_Witness ==
    \E rid \in DOMAIN persisted_runs(state) :
        /\ persisted_runs(state)[rid].max_steps = DefaultMaxSteps
        /\ persisted_runs(state)[rid].status \in {"done", "escalated"}
        /\ persisted_runs(state)[rid].step = 2
        /\ accepted[rid] = 2

\* The positions of the tool requests for run rid among the events of resp.
requests_for(resp, rid) ==
    {j \in 1..Len(events_of(resp)) :
        /\ events_of(resp)[j].type = "agentic.tool_request"
        /\ events_of(resp)[j].payload.run_id = rid}

returned_runs(resp) ==
    IF "runs" \in DOMAIN state_updates_of(resp)
    THEN state_updates_of(resp).runs.d ELSE EmptyDict

(***************************************************************************)
(* C39: every emitted agentic.tool_request agrees with the state returned  *)
(* in the same response: its run_id is a key of state_updates.runs and     *)
(* that record is running with step = pending_step = the request's step    *)
(* and pending_tool = the request's tool.  Conversely a response that      *)
(* returns a changed or new record with status running holds exactly one   *)
(* tool request for that run.                                              *)
(***************************************************************************)
C39_RequestMatchesReturnedState ==
    Busy =>
        /\ \A j \in 1..Len(events_of(call.response)) :
              LET e == call.response.events[j]
              IN  e.type = "agentic.tool_request" =>
                    /\ e.payload.run_id \in DOMAIN returned_runs(call.response)
                    /\ LET run == returned_runs(call.response)[e.payload.run_id]
                       IN  /\ run.status = "running"
                           /\ run.step = e.payload.step
                           /\ run.pending_step = PyInt(e.payload.step)
                           /\ run.pending_tool = PyStr(e.payload.tool)
        /\ \A rid \in DOMAIN returned_runs(call.response) :
              LET run == returned_runs(call.response)[rid]
                  changed == \/ rid \notin DOMAIN persisted_runs(state)
                             \/ persisted_runs(state)[rid] # run
              IN  run.status = "running" /\ changed
                    => Cardinality(requests_for(call.response, rid)) = 1

\* A result has advanced a run: the response holds the request for step 2
\* and the record waiting on it.
C39_Witness ==
    /\ Busy
    /\ is_tool_result(call.request)
    /\ \E rid \in DOMAIN persisted_runs(state) :
          /\ requests_for(call.response, rid) # {}
          /\ returned_runs(call.response)[rid].step = 2

RunEvents == {"agentic.tool_request", "agent.completed", "agent.escalated"}

\* The response holds exactly one event and it is about run rid.
one_event_about(resp, rid) ==
    /\ Len(events_of(resp)) = 1
    /\ resp.events[1].type \in RunEvents
    /\ resp.events[1].payload.run_id = rid

\* The invocation in flight changes the record of run rid: the merged state
\* holds a record for rid that the state before did not hold, or run_start
\* has written the record anew (its timestamps are those of this invocation;
\* with the one clock value of Times a repeated start writes an equal record).
changes_run(rid) ==
    \/ rid \in DOMAIN persisted_runs(post_state) \ DOMAIN persisted_runs(state)
    \/ /\ rid \in DOMAIN persisted_runs(state)
       /\ persisted_runs(post_state)[rid] # persisted_runs(state)[rid]
    \/ /\ is_start(call.request)
       /\ is_ok(call.response)
       /\ call.response.state_updates.last_run_id.s = rid

(***************************************************************************)
(* C40: every response holds at most one event; a handle invocation        *)
(* changes a run record if and only if its response holds exactly one      *)
(* event and that event (agentic.tool_request, agent.completed or          *)
(* agent.escalated) is about that run; a response without events (the      *)
(* log-only answers for an unknown run, a stale step or a terminal run,    *)
(* and every error) changes no run.                                        *)
(***************************************************************************)
C40_OneEventIffRunChanged ==
    Busy =>
        /\ Len(events_of(call.response)) <= 1
        /\ \A rid \in AllRunIds \cup DOMAIN persisted_runs(post_state) :
              changes_run(rid) <=> one_event_about(call.response, rid)
        /\ Len(events_of(call.response)) = 0
              => persisted_runs(post_state) = persisted_runs(state)
        /\ DOMAIN persisted_runs(state) \subseteq DOMAIN persisted_runs(post_state)

\* A result has escalated one run with one event, in a state that holds
\* another run, which the response leaves as it was.
C40_Witness ==
    /\ Busy
    /\ is_tool_result(call.request)
    /\ \E rid \in DOMAIN persisted_runs(state) :
          /\ one_event_about(call.response, rid)
          /\ call.response.events[1].type = "agent.escalated"
          /\ persisted_runs(post_state)[rid] # persisted_runs(state)[rid]
          /\ \E other \in DOMAIN persisted_runs(state) \ {rid} :
                persisted_runs(post_state)[other] = persisted_runs(state)[other]

\* The emitted events of the given types, by position in outbox.
emitted(types) == {i \in 1..Len(outbox) : outbox[i].event.type \in types}

\* The call in flight is the first delivery of the result of a tool request.
first_delivery ==
    /\ Busy
    /\ "feeds" \in DOMAIN call
    /\ call.feeds > 0
    /\ outbox[call.feeds].fed = 1

(***************************************************************************)
(* C34: in the closed loop the result of every emitted tool request is     *)
(* accepted on its first delivery: it is addressed to a running run, on    *)
(* that run's pending step and from its pending tool, so it is not dropped *)
(* as stale, not refused as a step violation and not escalated as a tool   *)
(* mismatch.  (With it the claim has every started run reach done or       *)
(* escalated.)                                                             *)
(***************************************************************************)
C34_FirstDeliveryAccepted ==
    first_delivery =>
        /\ to_running_run(call.request, state)
        /\ LET run == persisted_runs(state)[result_run_id(call.request)]
           IN  /\ run.pending_step = req_payload(call.request).step
               /\ run.pending_tool = req_payload(call.request).tool
        /\ is_ok(call.response)
        /\ Len(call.response.events) = 1
        /\ call.response.events[1].type = "agent.escalated"
              => call.response.events[1].payload.reason # "pending_tool_mismatch"

(***************************************************************************)
(* C35: over the starts and tool results processed one at a time, each     *)
(* run_id is the subject of at most one terminal event: no two emitted     *)
(* agent.completed or agent.escalated events name the same run.            *)
(***************************************************************************)
C35_OneTerminalEventPerRun ==
    \A i, j \in emitted({"agent.completed", "agent.escalated"}) :
        i # j => outbox[i].event.payload.run_id # outbox[j].event.payload.run_id

(***************************************************************************)
(* C36: no two emitted agentic.tool_request events share a dedupe key      *)
(* (each response holds at most one event, so two emitted requests always  *)
(* come from two state transitions).                                       *)
(***************************************************************************)
C36_DedupeKeysDistinct ==
    \A i, j \in emitted({"agentic.tool_request"}) :
        i # j => outbox[i].event.dedupe_key # outbox[j].event.dedupe_key

====
